---- MODULE Spec2Model ----
(***************************************************************************)
(* go-git-release: the OAuth2 device-authorization flow of cmd/release.go  *)
(* (requestDeviceAndUserCodes, pollForAccessToken, getAccessToken,         *)
(* makeHTTPRequest) as run() drives it.                                    *)
(*                                                                         *)
(* Time is a Go time.Duration since the start of polling, kept as a pair   *)
(* <<seconds, nanoseconds>> so that the "+ 1" of the ticker period keeps   *)
(* its unit (one nanosecond).                                              *)
(***************************************************************************)
EXTENDS Integers, Sequences, FiniteSets, TLC

\* ------------------------------------------------------------- bounds
\* largest expires_in (seconds) a device-authorization response carries
MaxExpiresIn == 5
\* largest interval (seconds) a device-authorization response carries
MaxInterval == 2
\* largest interval (seconds) a slow_down response carries
MaxSlowInterval == 2
\* the wall clock is followed up to this many seconds after polling starts
MaxTime == 7

\* ------------------------------------------------------------- time
\* time.Second, in nanoseconds (the unit of time.Duration)
Second == 1000000000

Zero == <<0, 0>>

Seconds(n) == <<n, 0>>

DurAdd(a, b) ==
    LET n == a[2] + b[2]
    IN  IF n >= Second THEN <<a[1] + b[1] + 1, n - Second>>
                       ELSE <<a[1] + b[1], n>>

DurLess(a, b) == a[1] < b[1] \/ (a[1] = b[1] /\ a[2] < b[2])

DurLeq(a, b) == a = b \/ DurLess(a, b)

DurMax(a, b) == IF DurLess(a, b) THEN b ELSE a

\* time.Duration(interval)*time.Second + 1 : interval seconds and ONE NANOSECOND
TickPeriod(i) == DurAdd(Seconds(i), <<0, 1>>)

\* the first firing of a ticker (firing at t, t+p, t+2p, ...) that is later than now:
\* the ticker's channel holds one tick, the firings nobody receives are dropped
RECURSIVE NextFire(_, _, _)
NextFire(t, p, n) == IF DurLess(n, t) THEN t ELSE NextFire(DurAdd(t, p), p, n)

\* ------------------------------------------------------------- values
NoErr == "<nil>"
NoPush == "<no push>"
NoField == "<absent>"
Absent == -1
ErrTimeout == "timeout reached"
ErrDo == "ctxhttp.Do: transport error"
ErrRead == "ioutil.ReadAll: read error"
ErrJSON == "json: cannot unmarshal"

githubDeviceGrantType == "urn:ietf:params:oauth:grant-type:device_code"

\* the errors of getAccessToken's switch that end the flow
FatalErrors == {"expired_token", "unsupported_grant_type", "incorrect_client_credentials",
                "incorrect_device_code", "access_denied"}

\* http.Response.Status of the status codes the model draws
StatusText(code) ==
    CASE code = 200 -> "200 OK"
      [] code = 201 -> "201 Created"
      [] code = 400 -> "400 Bad Request"
      [] code = 404 -> "404 Not Found"
      [] code = 422 -> "422 Unprocessable Entity"
      [] OTHER -> "unknown status"

StatusCodes == {200, 201, 400, 404, 422}

Is2xx(code) == code >= 200 /\ code <= 299

\* ------------------------------------------------------------- HTTP responses
\* A response is [transport, status, body]: transport "do_err" is a request that
\* ctxhttp.Do fails (no response), "read_err" a response whose body cannot be read.
\* A body is what encoding/json sees: kind "invalid" (not JSON), "null" (the JSON
\* value null), "array" (JSON, but no object), "badtype" (an object with a field of
\* the wrong JSON type) or "object"; the fields of an object are NoField / Absent
\* when the object lacks them.

Token == "gho_token"

PollBody(k, e, i, t) ==
    [kind |-> k, error |-> e, interval |-> i, access_token |-> t,
     token_type |-> IF t = "" THEN "" ELSE "bearer",
     scope |-> IF t = "" THEN "" ELSE "repo"]

PendingBody == PollBody("object", "authorization_pending", Absent, "")

SuccessBody == PollBody("object", NoField, Absent, Token)

PollObjects ==
    {PollBody("object", NoField, Absent, t) : t \in {"", Token}}
    \cup {PendingBody}
    \cup {PollBody("object", "slow_down", i, "") : i \in {Absent} \cup (0 .. MaxSlowInterval)}
    \cup {PollBody("object", e, Absent, "") : e \in FatalErrors}
    \cup {PollBody("object", "server_error", Absent, t) : t \in {"", Token}}

PollBodies ==
    PollObjects
    \cup {PollBody(k, NoField, Absent, "") : k \in {"invalid", "null", "array", "badtype"}}

PollResponses ==
    {[transport |-> t, status |-> 0, body |-> PollBody("invalid", NoField, Absent, "")] :
        t \in {"do_err"}}
    \cup {[transport |-> "read_err", status |-> 200, body |-> SuccessBody]}
    \cup {[transport |-> "ok", status |-> c, body |-> b] :
            c \in StatusCodes \ {200}, b \in {PendingBody, SuccessBody}}
    \cup {[transport |-> "ok", status |-> 200, body |-> b] : b \in PollBodies}

\* the provider issues a device code of its own with every authorization
DeviceCodeOf(i) == CASE i = 1 -> "D1" [] i = 2 -> "D2" [] OTHER -> "D3"

DeviceBody(k, e, i) ==
    [kind |-> k, device_code |-> DeviceCodeOf(i), user_code |-> "ABCD-1234",
     verification_uri |-> "https://example/device", expires_in |-> e, interval |-> i]

DeviceObjects ==
    {DeviceBody("object", e, i) : e \in 1 .. MaxExpiresIn, i \in 1 .. MaxInterval}

DeviceBodies ==
    DeviceObjects \cup {DeviceBody(k, 1, 1) : k \in {"invalid", "null", "array", "badtype"}}

DeviceResponses ==
    {[transport |-> "do_err", status |-> 0, body |-> DeviceBody("invalid", 1, 1)]}
    \cup {[transport |-> "read_err", status |-> 200, body |-> DeviceBody("object", 1, 1)]}
    \cup {[transport |-> "ok", status |-> c, body |-> DeviceBody("object", 1, 1)] :
            c \in StatusCodes \ {200}}
    \cup {[transport |-> "ok", status |-> 200, body |-> b] : b \in DeviceBodies}

NoResp == [transport |-> "none", status |-> 0, body |-> PollBody("invalid", NoField, Absent, "")]

NoDeviceResp == [transport |-> "none", status |-> 0, body |-> DeviceBody("invalid", 1, 1)]

\* ------------------------------------------------------------- release.go, pure parts
NoBody == [kind |-> "none"]

\* makeHTTPRequest without its second status check: only a 404 is refused
makeHTTPRequest_Only404Refused(r) ==
    IF r.transport = "do_err" THEN [body |-> NoBody, err |-> ErrDo]
    ELSE IF r.status = 404
        THEN [body |-> NoBody, err |-> "failed to authorize device: 404 Not Found"]
    ELSE IF r.transport = "read_err" THEN [body |-> NoBody, err |-> ErrRead]
    ELSE [body |-> r.body, err |-> NoErr]

\* makeHTTPRequest refusing the statuses outside 200..299 instead of those that are not 200
makeHTTPRequest_Any2xx(r) ==
    IF r.transport = "do_err" THEN [body |-> NoBody, err |-> ErrDo]
    ELSE IF r.status = 404
        THEN [body |-> NoBody, err |-> "failed to authorize device: 404 Not Found"]
    ELSE IF ~Is2xx(r.status) THEN [body |-> NoBody, err |-> StatusText(r.status)]
    ELSE IF r.transport = "read_err" THEN [body |-> NoBody, err |-> ErrRead]
    ELSE [body |-> r.body, err |-> NoErr]

\* makeHTTPRequest: execute the request, demand a 200, read the body
makeHTTPRequest(r) ==
    IF r.transport = "do_err" THEN [body |-> NoBody, err |-> ErrDo]
    ELSE IF r.status = 404
        THEN [body |-> NoBody, err |-> "failed to authorize device: 404 Not Found"]
    ELSE IF r.status # 200 THEN [body |-> NoBody, err |-> StatusText(r.status)]
    ELSE IF r.transport = "read_err" THEN [body |-> NoBody, err |-> ErrRead]
    ELSE [body |-> r.body, err |-> NoErr]

NilAuth == [nil |-> TRUE]

\* UserAuth with a misspelt json tag on AccessToken: the field is never filled
UserAuthOf_TokenDropped(b) ==
    [nil |-> FALSE, AccessToken |-> "", TokenType |-> b.token_type,
     Scope |-> b.scope, raw |-> [error |-> b.error, interval |-> b.interval]]

\* json.Unmarshal(body, &auth) and json.Unmarshal(body, &auth.raw) of a JSON object:
\* a field the object lacks keeps Go's zero value, raw keeps what the object holds
UserAuthOf(b) ==
    [nil |-> FALSE, AccessToken |-> b.access_token, TokenType |-> b.token_type,
     Scope |-> b.scope, raw |-> [error |-> b.error, interval |-> b.interval]]

\* the switch without its case "access_denied"
errorSwitch_NoAccessDenied(auth) ==
    LET e == auth.raw.error
    IN  IF e = "authorization_pending"
            THEN [auth |-> auth, ok |-> FALSE, err |-> NoErr, panic |-> FALSE]
        ELSE IF e \in {"slow_down", "expired_token", "unsupported_grant_type",
                       "incorrect_client_credentials", "incorrect_device_code"}
            THEN [auth |-> auth, ok |-> FALSE, err |-> e, panic |-> FALSE]
        ELSE [auth |-> auth, ok |-> TRUE, err |-> NoErr, panic |-> FALSE]

\* the switch on auth.raw["error"] that ends getAccessToken: authorization_pending is
\* no error, the six errors named are returned as errors, and every other value
\* (no error field, or an error the switch does not name) falls through to ok = true
errorSwitch(auth) ==
    LET e == auth.raw.error
    IN  IF e = "authorization_pending"
            THEN [auth |-> auth, ok |-> FALSE, err |-> NoErr, panic |-> FALSE]
        ELSE IF e \in {"slow_down", "expired_token", "unsupported_grant_type",
                       "incorrect_client_credentials", "incorrect_device_code",
                       "access_denied"}
            THEN [auth |-> auth, ok |-> FALSE, err |-> e, panic |-> FALSE]
        ELSE [auth |-> auth, ok |-> TRUE, err |-> NoErr, panic |-> FALSE]

\* getAccessToken: one poll of the token endpoint. panic: JSON null sets the pointer
\* auth to nil and &auth.raw dereferences it.
getAccessToken(r) ==
    LET h == makeHTTPRequest(r)
    IN  IF h.err # NoErr
            THEN [auth |-> NilAuth, ok |-> FALSE, err |-> h.err, panic |-> FALSE]
        ELSE IF h.body.kind \in {"invalid", "array", "badtype"}
            THEN [auth |-> NilAuth, ok |-> FALSE, err |-> ErrJSON, panic |-> FALSE]
        ELSE IF h.body.kind = "null"
            THEN [auth |-> NilAuth, ok |-> FALSE, err |-> NoErr, panic |-> TRUE]
        ELSE errorSwitch(UserAuthOf(h.body))

\* the body of pollForAccessToken's "case <-ticker" once getAccessToken has returned g:
\* what the loop does ("return", "loop" or "panic") and the interval it leaves.
\* The type assertion auth.raw["interval"].(float64) panics when the response has no
\* numeric interval.
pollIteration(i, g) ==
    IF g.panic THEN [do |-> "panic", auth |-> NilAuth, err |-> NoErr, interval |-> i,
                     reset |-> FALSE]
    ELSE IF g.ok THEN [do |-> "return", auth |-> g.auth, err |-> NoErr, interval |-> i,
                       reset |-> FALSE]
    ELSE IF g.err # NoErr
        THEN IF g.err = "slow_down"
                 THEN IF g.auth.raw.interval = Absent
                          THEN [do |-> "panic", auth |-> NilAuth, err |-> NoErr,
                                interval |-> i, reset |-> FALSE]
                          ELSE [do |-> "loop", auth |-> NilAuth, err |-> NoErr,
                                interval |-> g.auth.raw.interval + 1, reset |-> TRUE]
                 ELSE [do |-> "return", auth |-> g.auth, err |-> g.err, interval |-> i,
                       reset |-> FALSE]
    ELSE [do |-> "loop", auth |-> NilAuth, err |-> NoErr, interval |-> i, reset |-> FALSE]

NilDeviceAuth == [nil |-> TRUE]

DeviceAuthOf(b) ==
    [nil |-> FALSE, DeviceCode |-> b.device_code, UserCode |-> b.user_code,
     VerificationURI |-> b.verification_uri, ExpiresIn |-> b.expires_in,
     Interval |-> b.interval]

\* requestDeviceAndUserCodes with the error of makeHTTPRequest dropped: an empty
\* DeviceAuth is returned in place of the error
requestDeviceAndUserCodes_ErrDropped(r) ==
    LET h == makeHTTPRequest(r)
    IN  IF h.err # NoErr
            THEN [auth |-> [nil |-> FALSE, DeviceCode |-> "", UserCode |-> "",
                            VerificationURI |-> "", ExpiresIn |-> 0, Interval |-> 0],
                  err |-> NoErr, panic |-> FALSE]
        ELSE IF h.body.kind \in {"invalid", "array", "badtype"}
            THEN [auth |-> NilDeviceAuth, err |-> ErrJSON, panic |-> FALSE]
        ELSE IF h.body.kind = "null"
            THEN [auth |-> NilDeviceAuth, err |-> NoErr, panic |-> TRUE]
        ELSE [auth |-> DeviceAuthOf(h.body), err |-> NoErr, panic |-> FALSE]

\* requestDeviceAndUserCodes: the device-authorization request and its decoding
requestDeviceAndUserCodes(r) ==
    LET h == makeHTTPRequest(r)
    IN  IF h.err # NoErr THEN [auth |-> NilDeviceAuth, err |-> h.err, panic |-> FALSE]
        ELSE IF h.body.kind \in {"invalid", "array", "badtype"}
            THEN [auth |-> NilDeviceAuth, err |-> ErrJSON, panic |-> FALSE]
        ELSE IF h.body.kind = "null"
            THEN [auth |-> NilDeviceAuth, err |-> NoErr, panic |-> TRUE]
        ELSE [auth |-> DeviceAuthOf(h.body), err |-> NoErr, panic |-> FALSE]

\* ------------------------------------------------------------- requests
\* bounds of the parameter sets and header maps explored
MaxVals == 2
MaxReleases == 2
MaxHeaderMaps == 2

\* Strings whose characters matter are sequences of one-character strings.
\* url.QueryEscape: a space becomes "+", a reserved character its %XX escape
EscapeChar(c) ==
    CASE c = " " -> <<"+">>
      [] c = "&" -> <<"%", "2", "6">>
      [] c = "=" -> <<"%", "3", "D">>
      [] c = "+" -> <<"%", "2", "B">>
      [] c = "%" -> <<"%", "2", "5">>
      [] OTHER -> <<c>>

RECURSIVE QueryEscape(_)
QueryEscape(s) ==
    IF s = <<>> THEN <<>> ELSE EscapeChar(Head(s)) \o QueryEscape(Tail(s))

\* the character a %XX escape stands for
Unhex(a, b) ==
    CASE a = "2" /\ b = "6" -> "&"
      [] a = "3" /\ b = "D" -> "="
      [] a = "2" /\ b = "B" -> "+"
      [] a = "2" /\ b = "5" -> "%"
      [] a = "2" /\ b = "0" -> " "
      [] OTHER -> "?"

\* url.QueryUnescape: "+" is a space, %XX the character it escapes
RECURSIVE QueryUnescape(_)
QueryUnescape(s) ==
    IF s = <<>> THEN <<>>
    ELSE IF Head(s) = "%" /\ Len(s) >= 3
        THEN <<Unhex(s[2], s[3])>> \o QueryUnescape(SubSeq(s, 4, Len(s)))
    ELSE IF Head(s) = "+" THEN <<" ">> \o QueryUnescape(Tail(s))
    ELSE <<Head(s)>> \o QueryUnescape(Tail(s))

\* the keys of the parameter sets, in the order sort.Strings gives them
KeyOrder == << <<"a">>, <<"a", "&">>, <<"body">>, <<"client_id">>, <<"device_code">>, <<"draft">>,
              <<"grant_type">>, <<"name">>, <<"prerelease">>, <<"tag_name">>,
              <<"target_commitish">> >>

ParamStrings == {<<>>, <<"x", " ", "y">>, <<"p", "&", "q", "=", "%", "+">>}

ValueLists == UNION {[1 .. n -> ParamStrings] : n \in 1 .. MaxVals}

\* url.Values as Add and Set build them: every key present has at least one value
ParamSets == UNION {[ks -> ValueLists] : ks \in SUBSET {KeyOrder[1], KeyOrder[2]}}

EmptyValues == [k \in {} |-> <<>>]

\* "k=v1&k=v2" for one key
RECURSIVE EncodeKey(_, _)
EncodeKey(k, vs) ==
    IF vs = <<>> THEN <<>>
    ELSE QueryEscape(k) \o <<"=">> \o QueryEscape(Head(vs))
         \o (IF Tail(vs) = <<>> THEN <<>> ELSE <<"&">> \o EncodeKey(k, Tail(vs)))

\* url.Values.Encode: the keys sorted, key=value joined by "&"
RECURSIVE EncodeFrom(_, _)
EncodeFrom(v, i) ==
    IF i > Len(KeyOrder) THEN <<>>
    ELSE LET k == KeyOrder[i]
             rest == EncodeFrom(v, i + 1)
             this == IF k \in DOMAIN v THEN EncodeKey(k, v[k]) ELSE <<>>
         IN  IF this = <<>> THEN rest
             ELSE IF rest = <<>> THEN this
             ELSE this \o <<"&">> \o rest

Encode(v) == EncodeFrom(v, 1)

Contains(s, c) == \E i \in 1 .. Len(s) : s[i] = c

IndexOf(s, c) == CHOOSE i \in 1 .. Len(s) : s[i] = c /\ \A j \in 1 .. i - 1 : s[j] # c

\* strings.Split
RECURSIVE Split(_, _)
Split(s, sep) ==
    IF ~Contains(s, sep) THEN <<s>>
    ELSE <<SubSeq(s, 1, IndexOf(s, sep) - 1)>>
         \o Split(SubSeq(s, IndexOf(s, sep) + 1, Len(s)), sep)

\* strings.Cut(segment, "="), both halves unescaped
CutKey(seg) ==
    QueryUnescape(IF Contains(seg, "=") THEN SubSeq(seg, 1, IndexOf(seg, "=") - 1) ELSE seg)

CutValue(seg) ==
    QueryUnescape(IF Contains(seg, "=")
                      THEN SubSeq(seg, IndexOf(seg, "=") + 1, Len(seg))
                      ELSE <<>>)

ValuesOf(segs) == [i \in 1 .. Len(segs) |-> CutValue(segs[i])]

\* url.ParseQuery, as Request.ParseForm applies it to a form body: every non-empty
\* segment appends its value to its key
ParseQuery(body) ==
    LET segs == SelectSeq(Split(body, "&"), LAMBDA seg : seg # <<>>)
        keys == {CutKey(segs[i]) : i \in 1 .. Len(segs)}
    IN  [k \in keys |-> ValuesOf(SelectSeq(segs, LAMBDA seg : CutKey(seg) = k))]

\* textproto.CanonicalMIMEHeaderKey, which Header.Set applies to its key
CanonicalMIMEHeaderKey(k) ==
    CASE k = "accept" -> "Accept"
      [] k = "content-type" -> "Content-Type"
      [] k = "authorization" -> "Authorization"
      [] OTHER -> k

HeaderKeys == {"Authorization", "accept"}

HeaderValues == {<<"v1">>, <<"v2">>}

\* map[string]string
HeaderMaps == UNION {[ks -> HeaderValues] : ks \in SUBSET HeaderKeys}

HeaderLists == UNION {[1 .. n -> HeaderMaps] : n \in 0 .. MaxHeaderMaps}

\* for k, v := range m { r.Header.Set(k, v) }
SetAll(h, m) ==
    [k \in DOMAIN h \cup {CanonicalMIMEHeaderKey(x) : x \in DOMAIN m} |->
        IF \E x \in DOMAIN m : CanonicalMIMEHeaderKey(x) = k
            THEN m[CHOOSE x \in DOMAIN m : CanonicalMIMEHeaderKey(x) = k]
            ELSE h[k]]

RECURSIVE SetEach(_, _)
SetEach(h, headers) ==
    IF headers = <<>> THEN h ELSE SetEach(SetAll(h, Head(headers)), Tail(headers))

FormContentType == <<"application/x-www-form-urlencoded">>

JSONAccept == <<"application/json">>

\* r.Header.Set("Content-Type", ...); r.Header.Set("Accept", "application/json")
DefaultHeader == [k \in {"Content-Type", "Accept"} |->
                     IF k = "Accept" THEN JSONAccept ELSE FormContentType]

TestURL == <<"https://api.example.org/api/testendpoint">>

BadURL == <<":">>

ErrURL == "parse: missing protocol scheme"

NilRequest == [nil |-> TRUE]

\* http.NewRequest: the URL is parsed, the reader becomes the body
NewRequest(method, url, body) ==
    IF url = BadURL THEN [req |-> NilRequest, err |-> ErrURL]
    ELSE [req |-> [nil |-> FALSE, Method |-> method, URL |-> url, Header |-> <<>>,
                   Body |-> body],
          err |-> NoErr]

\* newGetRequest without the reader over params.Encode()
newGetRequest_NoBody(url, params) ==
    LET n == NewRequest("GET", url, <<>>)
    IN  IF n.err # NoErr THEN n
        ELSE [req |-> [n.req EXCEPT !.Header = DefaultHeader], err |-> NoErr]

\* newGetRequest: a GET whose body is the encoded parameters
newGetRequest(url, params) ==
    LET n == NewRequest("GET", url, Encode(params))
    IN  IF n.err # NoErr THEN n
        ELSE [req |-> [n.req EXCEPT !.Header = DefaultHeader], err |-> NoErr]

\* newPostRequest setting its own two headers after the caller's
newPostRequest_DefaultsLast(url, params, headers) ==
    LET n == NewRequest("POST", url, Encode(params))
    IN  IF n.err # NoErr THEN n
        ELSE [req |-> [n.req EXCEPT !.Header = SetAll(SetEach(<<>>, headers), DefaultHeader)],
              err |-> NoErr]

\* newPostRequest with the parameters left out of the body
newPostRequest_NoBody(url, params, headers) ==
    LET n == NewRequest("POST", url, <<>>)
    IN  IF n.err # NoErr THEN n
        ELSE [req |-> [n.req EXCEPT !.Header = SetEach(DefaultHeader, headers)],
              err |-> NoErr]

\* newPostRequest: a POST whose body is the encoded parameters, the two headers of
\* its own, then the caller's maps in the order given
newPostRequest(url, params, headers) ==
    LET n == NewRequest("POST", url, Encode(params))
    IN  IF n.err # NoErr THEN n
        ELSE [req |-> [n.req EXCEPT !.Header = SetEach(DefaultHeader, headers)],
              err |-> NoErr]

\* githubEndpoint.TokenURL and the client id of the configuration
TokenURL == <<"https://github.com/login/oauth/access_token">>

ClientID == "client-1"

\* pollForAccessToken's params without the device code
pollParams_NoDeviceCode(client, deviceCode, grantType) ==
    [k \in {<<"client_id">>, <<"grant_type">>} |->
        IF k = <<"client_id">> THEN << <<client>> >> ELSE << <<grantType>> >>]

\* pollForAccessToken: params.Add of client_id, device_code and grant_type, once,
\* before the loop
pollParams(client, deviceCode, grantType) ==
    [k \in {<<"client_id">>, <<"device_code">>, <<"grant_type">>} |->
        CASE k = <<"client_id">> -> << <<client>> >>
          [] k = <<"device_code">> -> << <<deviceCode>> >>
          [] OTHER -> << <<grantType>> >>]

\* run(): "Please enter your one-time verification code at %s" and "One-time code: %s"
promptOutput(auth) == {auth.VerificationURI, auth.UserCode}

\* the responses the request helpers and the releases endpoint are given
HttpBodies == {[kind |-> k] : k \in {"object", "invalid", "null", "array", "badtype"}}

HttpResponses ==
    {[transport |-> "do_err", status |-> 0, body |-> [kind |-> "invalid"]]}
    \cup {[transport |-> "read_err", status |-> 200, body |-> [kind |-> "object"]]}
    \cup {[transport |-> "ok", status |-> c, body |-> [kind |-> k]] :
            c \in StatusCodes \ {200}, k \in {"object", "invalid"}}
    \cup {[transport |-> "ok", status |-> 200, body |-> b] : b \in HttpBodies}

\* the answers of the releases endpoint that run() is given
ReleaseResponses ==
    {r \in HttpResponses :
        r.transport = "ok" =>
            \/ r.status \in {201, 422} /\ r.body.kind = "object"
            \/ r.status = 200 /\ r.body.kind \in {"object", "invalid", "null"}}

NoHttpResp == [transport |-> "none", status |-> 0, body |-> [kind |-> "invalid"]]

NoHttpRet == [body |-> NoBody, err |-> NoErr]

\* parseGitURL's result for git@github.com:foo/bar.git
GitURL == [organization |-> "foo", repository |-> "bar", raw |-> "git@github.com:foo/bar.git"]

\* fmt.Sprintf("https://api.github.com/repos/%s/%s/releases", ...)
ReleasesURL(gURL) ==
    <<"https://api.github.com/repos/", gURL.organization, "/", gURL.repository, "/releases">>

\* strconv.FormatBool
FormatBool(b) == IF b THEN <<"true">> ELSE <<"false">>

\* the params createRelease fills with params.Add
ReleaseParams(t, message, draft, prerelease) ==
    [k \in {<<"tag_name">>, <<"name">>, <<"body">>, <<"draft">>, <<"prerelease">>} |->
        CASE k = <<"tag_name">> -> <<t>>
          [] k = <<"name">> -> << <<"DEBUG TEST 1">> >>
          [] k = <<"body">> -> <<message>>
          [] k = <<"draft">> -> <<FormatBool(draft)>>
          [] OTHER -> <<FormatBool(prerelease)>>]

\* headers["Authorization"] with the colon of an HTTP header line between the two
AuthorizationHeader_Colon(auth) ==
    [k \in {"Authorization"} |-> <<auth.TokenType, ": ", auth.AccessToken>>]

\* headers["Authorization"] = fmt.Sprintf("%s %s", auth.TokenType, auth.AccessToken)
AuthorizationHeader(auth) ==
    [k \in {"Authorization"} |-> <<auth.TokenType, " ", auth.AccessToken>>]

\* the request createRelease builds: the params it has filled are not the ones it
\* hands to newPostRequest, which gets url.Values{}
createReleaseRequest(auth, gURL, t, message, c, draft, prerelease) ==
    LET params == ReleaseParams(t, message, draft, prerelease)
    IN  newPostRequest(ReleasesURL(gURL), EmptyValues, <<AuthorizationHeader(auth)>>)

NilRelease == [nil |-> TRUE]

\* the rest of createRelease once the request has been answered by r: a JSON null
\* leaves the release struct and its raw map empty and is no error
createReleaseResult(r) ==
    LET h == makeHTTPRequest(r)
    IN  IF h.err # NoErr THEN [release |-> NilRelease, err |-> h.err]
        ELSE IF h.body.kind \in {"invalid", "array", "badtype"}
            THEN [release |-> NilRelease, err |-> ErrJSON]
        ELSE [release |-> [nil |-> FALSE, kind |-> h.body.kind], err |-> NoErr]

\* ------------------------------------------------------------- tags
\* bounds of the repositories and inputs explored
MaxTags == 2
MaxReads == 3

\* strings that are compared character by character are sequences of characters
V1 == <<"v", "1">>
V10 == <<"v", "1", "0">>
V2 == <<"v", "2">>
TagNames == {V1, V10, V2}

\* strings.HasPrefix(s, prefix)
HasPrefix(s, prefix) == Len(prefix) <= Len(s) /\ SubSeq(s, 1, Len(prefix)) = prefix

\* commits of the clone; the clone's head is HeadCommit. ZeroHash is plumbing.ZeroHash,
\* MissingCommit a well-formed hash that names no object of the repository
Commits == {"c1", "c2"}
HeadCommit == "c2"
ZeroHash == "0000"
MissingCommit == "ffff"

\* the tags of the clone: a reference refs/tags/<Name>, which for an annotated tag
\* points at a tag object (Name, Target) and for a lightweight one at the commit
\* The tags explored sit on the commits behind the clone's head
TagRefs == [Name : TagNames, annotated : BOOLEAN, Target : Commits \ {HeadCommit}]

NilTag == [nil |-> TRUE]

TagObj(t) == [nil |-> FALSE, Name |-> t.Name, Target |-> t.Target]

\* repo.TagObjects(): the annotated tags only, in the order of the object store
TagObjects(repo) == SelectSeq(repo, LAMBDA t : t.annotated)

\* tags.ForEach with a prefix comparison in place of ==
RECURSIVE ForEach_PrefixMatch(_, _, _)
ForEach_PrefixMatch(tags, tag, i) ==
    IF i > Len(tags) THEN NilTag
    ELSE IF HasPrefix(tags[i].Name, tag) THEN TagObj(tags[i])
    ELSE ForEach_PrefixMatch(tags, tag, i + 1)

\* tags.ForEach(func(t) { if t.Name == tag { tagObj = t; return tagFoundError } })
\* the iteration stops at the first callback that returns an error
RECURSIVE ForEach(_, _, _)
ForEach(tags, tag, i) ==
    IF i > Len(tags) THEN NilTag
    ELSE IF tags[i].Name = tag THEN TagObj(tags[i])
    ELSE ForEach(tags, tag, i + 1)

\* getTagFromString: the tag object named tag, or nil
getTagFromString(tag, repo) == ForEach(TagObjects(repo), tag, 1)

\* the commit-ish given on the command line: nothing, the 40 hexadecimal digits of
\* a hash, or a name (of a tag or a branch; the names here begin with a letter
\* that is no hexadecimal digit)
Commitishes ==
    {[kind |-> "empty"]}
    \cup [kind : {"hash"}, hash : Commits \cup {MissingCommit}]
    \cup [kind : {"name"}, name : TagNames]

\* plumbing.NewHash(s): b, _ := hex.DecodeString(s); copy(h[:], b). The decoding
\* error is dropped, and a string whose first character is no hexadecimal digit
\* decodes to no bytes: the zero hash
NewHash(c) == IF c.kind = "hash" THEN c.hash ELSE ZeroHash

\* a message is the sequence of its lines (the string split at "\n"); the empty
\* string is the one empty line. A line is empty, a comment ("#...") or text
EmptyString == <<"">>
Lines == {"", "#", "txt"}

stripLine_KeepComments(l) == l

\* regexp (?m)^#.* replaced by "": a comment line becomes an empty line, its
\* newline stays
stripLine(l) == IF l = "#" THEN "" ELSE l

\* stripComments(s)
stripComments(s) == [i \in 1..Len(s) |-> stripLine(s[i])]

\* the same on the characters of the text: r.ReplaceAllString(s, "") for the regexp
\* (?m)^#.*, where ^ is the start of the text or of a line and . is any character
\* but "\n". atStart: s[i] is the first character of a line; inMatch: s[i] follows
\* a match that has not met its "\n"
RECURSIVE ReplaceFrom(_, _, _, _)
ReplaceFrom(s, i, atStart, inMatch) ==
    IF i > Len(s) THEN <<>>
    ELSE IF s[i] = "\n" THEN <<"\n">> \o ReplaceFrom(s, i + 1, TRUE, FALSE)
    ELSE IF inMatch \/ (atStart /\ s[i] = "#") THEN ReplaceFrom(s, i + 1, FALSE, TRUE)
    ELSE <<s[i]>> \o ReplaceFrom(s, i + 1, FALSE, FALSE)

ReplaceAllString(s) == ReplaceFrom(s, 1, TRUE, FALSE)

\* strings.TrimSpace(s) = ""
IsBlank(s) == \A i \in 1..Len(s) : s[i] = ""

\* annotatedTagPrompt: three empty lines and two comment lines
annotatedTagPrompt == <<"", "", "", "#", "#">>

\* what the editor leaves in the temporary file: the template untouched, a
\* message written above the template, a message alone, nothing at all
EditorOutputs == {annotatedTagPrompt, <<"txt">> \o annotatedTagPrompt, <<"txt">>, EmptyString}

\* tag messages given with -m or in the configuration
ConfigMessages == {EmptyString, <<"txt">>, <<"#">>, <<"#", "txt">>}

\* ------------------------------------------------------------- state
VARIABLES
    pc,              \* where run() is: "requestCodes", "prompt", "select" (blocked in
                     \* pollForAccessToken's select), "inflight" (blocked in the poll's
                     \* HTTP call), "returned", "aborted", "panic"; before the device
                     \* flow "getTag", "confirm", "checkoutTag", "checkoutCommitish",
                     \* "createTag", "setTag", "pushTags", "makeBuild", and "exit"
                     \* after os.Exit
    now,             \* the wall clock, as a Duration since run() reached the device flow
    devResp,         \* the device-authorization response received
    authResponse,    \* run's authResponse (*DeviceAuth)
    runErr,          \* the error run() returns
    interval,        \* pollForAccessToken's interval
    timeout,         \* when the channel of time.After(expiresIn) fires
    ticker,          \* the earliest firing of the current ticker not yet received
    period,          \* the period of the current ticker
    ret,             \* what pollForAccessToken returned: [auth, err]
    pollCount,       \* poll requests issued
    respCount,       \* poll responses received
    lastPollAt,      \* when the last poll request was issued
    prevPollAt,      \* when the one before it was issued
    lastResp,        \* the last poll response received
    intervalBefore,  \* interval as it was when lastResp arrived
    onlyPending,     \* every response before lastResp was authorization_pending
    currentInterval  \* the provider's minimum interval in force: the device
                     \* authorization's, then the one of the latest slow_down

\* run() before the device flow: the flags, the clone and what run has done to it
VARIABLES
    cloned,          \* the tag references as they were cloned
    tag,             \* --tag
    force,           \* --force
    commitish,       \* --commitish
    tagMessage,      \* --tagMessage; createTag overwrites it
    repoTags,        \* the tag references of the clone, in the object store's order
    head,            \* the commit the clone's HEAD and work tree are at
    tagObj,          \* run's tagObj
    reads,           \* lines confirm has read from standard input
    answer,          \* the last of them, as confirm compares it
    calls,           \* the calls made so far, in order
    created,         \* the tag object repo.CreateTag stored, if any
    pushed,          \* the tags were pushed to the remote
    pushErr          \* what repo.Push returned, NoPush before it is called

\* the request helpers on their own: an input, the request built from it and the
\* answer makeHTTPRequest was given
VARIABLES
    reqIn,           \* [url, params, headers]: the arguments of the helper
    reqBy,           \* the helper that built req: "newPostRequest", "newGetRequest" or ""
    req,             \* [req, err]: what the helper returned
    httpResp,        \* the response makeHTTPRequest was given
    httpRet          \* [body, err]: what makeHTTPRequest returned

\* run() before the clone and after the device flow, and the process around it
VARIABLES
    repositoryURL,   \* --repositoryURL
    cloneState,      \* "none", "cloned" or "failed"
    browser,         \* what openbrowser did: "none", "opened" or "failed" (and printed)
    relpc,           \* "idle", then "getReleases", "createRelease", "done"
    relReq,          \* the request createRelease built
    relResp,         \* the response to it
    relRet,          \* [release, err]: what createRelease returned
    exitCode         \* the exit status of the process, Absent while it runs

\* what the run shows and sends
VARIABLES
    printed,         \* the values written to standard output by the device flow and after
    pollReq,         \* the last poll request built
    relCount         \* requests sent to the releases endpoint

\* the flags and stripComments on their own
VARIABLES
    optIn,           \* an option and where it is set: [name, flag, env, file]
    effective,       \* the value the run uses for it
    stripIn,         \* a message, as its lines
    stripOut,        \* stripComments of it, applied `stripped` times
    stripped         \* 0, 1 or 2

reqVars == <<reqIn, reqBy, req, httpResp, httpRet>>

relVars == <<relpc, relReq, relResp, relRet>>

preVars == <<repositoryURL, cloneState>>

outVars == <<printed, pollReq, relCount>>

pureVars == <<optIn, effective, stripIn, stripOut, stripped>>

restVars == <<browser, reqVars, relVars, preVars, outVars, pureVars>>

tagVars == <<cloned, tag, force, commitish, tagMessage, repoTags, head, tagObj, reads, answer,
             calls, created, pushed, pushErr>>

\* what run() never writes
flags == <<cloned, tag, force, commitish>>

devVars == <<now, devResp, authResponse, interval, timeout, ticker, period, ret, pollCount,
             respCount, lastPollAt, prevPollAt, lastResp, intervalBefore, onlyPending,
             currentInterval, restVars>>

vars == <<pc, now, devResp, authResponse, runErr, interval, timeout, ticker, period, ret,
          pollCount, respCount, lastPollAt, prevPollAt, lastResp, intervalBefore,
          onlyPending, currentInterval, tagVars, restVars, exitCode>>

pollVars == <<interval, timeout, ticker, period, ret, pollCount, respCount, lastPollAt,
              prevPollAt, lastResp, intervalBefore, onlyPending, currentInterval>>

\* fmt.Errorf("<context>: %s", err): run() returns the error under a context
Wrap(context, e) == <<context, e>>

NoRunErr == <<"", NoErr>>

ErrPoll == "failed checking for authorization and retrieving access token"

\* a response getAccessToken decodes: a 200 whose body is a JSON object
Decoded(r) == r.transport = "ok" /\ r.status = 200 /\ r.body.kind = "object"

IsPending(r) == Decoded(r) /\ r.body.error = "authorization_pending"

IsSlowDown(r) == Decoded(r) /\ r.body.error = "slow_down"

\* openbrowser: the command of the platform is started; on a platform it does not
\* know, or when the command cannot be started, it prints the address to visit.
\* It returns nothing.
Platforms == {"linux", "windows", "darwin", "plan9"}

openbrowser(goos, started) ==
    IF goos \in {"linux", "windows", "darwin"} /\ started THEN "opened" ELSE "printed"

\* run() with a failure of openbrowser ending the run
afterOpenbrowser_Fatal(b) == IF b = "printed" THEN "aborted" ELSE "select"

\* run() after openbrowser: pollForAccessToken is called whatever the browser did
afterOpenbrowser(b) == "select"

NoReqIn == [url |-> TestURL, params |-> EmptyValues, headers |-> <<>>]

NoBuilt == [req |-> NilRequest, err |-> NoErr]

NoRelRet == [release |-> NilRelease, err |-> NoErr]

\* the request helpers untouched, the release not reached, the process running
ReqIdle ==
    /\ reqIn = NoReqIn
    /\ reqBy = ""
    /\ req = NoBuilt
    /\ httpResp = NoHttpResp
    /\ httpRet = NoHttpRet

\* nothing shown or sent yet
RunIdle ==
    /\ browser = "none"
    /\ relpc = "idle"
    /\ relReq = NilRequest
    /\ relResp = NoHttpResp
    /\ relRet = NoRelRet
    /\ exitCode = Absent
    /\ printed = {}
    /\ pollReq = NilRequest
    /\ relCount = 0

NoValue == "<unset>"

NoOpt == [name |-> "repositoryURL", flag |-> NoValue, env |-> NoValue, file |-> NoValue]

CfgIdle == optIn = NoOpt /\ effective = NoValue

StripIdle == stripIn = <<>> /\ stripOut = <<>> /\ stripped = 0

RestIdle == ReqIdle /\ RunIdle /\ CfgIdle /\ StripIdle

\* run() at the device flow; what went before is a forced run that found its tag
\* in the clone, checked it out and built
Init ==
    /\ pc = "requestCodes"
    /\ now = Zero
    /\ devResp = NoDeviceResp
    /\ authResponse = NilDeviceAuth
    /\ runErr = NoRunErr
    /\ interval = 0
    /\ timeout = Zero
    /\ ticker = Zero
    /\ period = Zero
    /\ ret = [auth |-> NilAuth, err |-> NoErr]
    /\ pollCount = 0
    /\ respCount = 0
    /\ lastPollAt = Zero
    /\ prevPollAt = Zero
    /\ lastResp = NoResp
    /\ intervalBefore = 0
    /\ onlyPending = TRUE
    /\ currentInterval = 0
    /\ tag = V1
    /\ force = TRUE
    /\ commitish = [kind |-> "empty"]
    /\ tagMessage = <<"txt">>
    /\ repoTags = <<[Name |-> V1, annotated |-> TRUE, Target |-> "c1"]>>
    /\ cloned = repoTags
    /\ head = "c1"
    /\ tagObj = [nil |-> FALSE, Name |-> V1, Target |-> "c1"]
    /\ reads = 0
    /\ answer = ""
    /\ calls = <<"getTagFromString", "checkoutCommitish", "makeBuild">>
    /\ created = NilTag
    /\ pushed = FALSE
    /\ pushErr = NoPush
    /\ repositoryURL = GitURL.raw
    /\ cloneState = "cloned"
    /\ RestIdle

\* run(): authResponse, err := requestDeviceAndUserCodes(...); an error ends run
RequestCodes(r) ==
    /\ pc = "requestCodes"
    /\ LET d == requestDeviceAndUserCodes(r)
       IN  /\ devResp' = r
           /\ authResponse' = d.auth
           /\ pc' = IF d.panic THEN "panic" ELSE IF d.err # NoErr THEN "aborted" ELSE "prompt"
           /\ runErr' = IF d.panic \/ d.err = NoErr
                            THEN NoRunErr
                            ELSE Wrap("failed requesting device and user codes from github", d.err)
    /\ UNCHANGED <<now, pollVars>>
    /\ UNCHANGED <<tagVars, restVars, exitCode>>

\* run() prints the codes, calls openbrowser and enters pollForAccessToken, which
\* creates the timeout channel and the ticker before its loop
StartPolling(goos, started) ==
    /\ pc = "prompt"
    /\ browser' = openbrowser(goos, started)
    /\ printed' = printed \cup promptOutput(authResponse)
    /\ interval' = authResponse.Interval
    /\ currentInterval' = authResponse.Interval
    /\ timeout' = DurAdd(now, Seconds(authResponse.ExpiresIn))
    /\ period' = TickPeriod(authResponse.Interval)
    /\ ticker' = DurAdd(now, TickPeriod(authResponse.Interval))
    /\ pc' = afterOpenbrowser(openbrowser(goos, started))
    /\ UNCHANGED <<now, devResp, authResponse, runErr, ret, pollCount, respCount, lastPollAt,
                   prevPollAt, lastResp, intervalBefore, onlyPending>>
    /\ UNCHANGED <<tagVars, reqVars, relVars, preVars, pollReq, relCount, pureVars, exitCode>>

\* select: a channel that is ready is taken at once, and Go picks among several ready
\* channels at random; with none ready the goroutine sleeps until the first one fires
TimeoutReady == DurLeq(timeout, now)

TickerReady == DurLeq(ticker, now)

\* case <-timeout: return nil, errors.New("timeout reached")
SelectTimeout ==
    /\ pc = "select"
    /\ TimeoutReady \/ (~TickerReady /\ DurLeq(timeout, ticker))
    /\ now' = DurMax(now, timeout)
    /\ ret' = [auth |-> NilAuth, err |-> ErrTimeout]
    /\ runErr' = Wrap(ErrPoll, ErrTimeout)
    /\ pc' = "returned"
    /\ UNCHANGED <<devResp, authResponse, interval, timeout, ticker, period, pollCount,
                   respCount, lastPollAt, prevPollAt, lastResp, intervalBefore, onlyPending,
                   currentInterval>>
    /\ UNCHANGED <<tagVars, restVars, exitCode>>

\* case <-ticker: newPostRequest and the call of getAccessToken, which blocks in
\* ctxhttp.Do (context.TODO() and the default client set no time limit)
SelectTicker ==
    /\ pc = "select"
    /\ TickerReady \/ (~TimeoutReady /\ DurLeq(ticker, timeout))
    /\ now' = DurMax(now, ticker)
    /\ ticker' = NextFire(ticker, period, DurMax(now, ticker))
    /\ pollCount' = pollCount + 1
    /\ prevPollAt' = lastPollAt
    /\ lastPollAt' = DurMax(now, ticker)
    /\ pc' = "inflight"
    /\ pollReq' = newPostRequest(TokenURL,
                                 pollParams(ClientID, authResponse.DeviceCode,
                                            githubDeviceGrantType),
                                 <<>>).req
    /\ UNCHANGED <<devResp, authResponse, runErr, interval, timeout, period, ret, respCount,
                   lastResp, intervalBefore, onlyPending, currentInterval>>
    /\ UNCHANGED <<tagVars, browser, reqVars, relVars, preVars, printed, relCount, pureVars,
                   exitCode>>

\* a second passes while the poll's HTTP call is outstanding
Elapse ==
    /\ pc = "inflight"
    /\ now[1] < MaxTime
    /\ now' = DurAdd(now, Seconds(1))
    /\ UNCHANGED <<pc, devResp, authResponse, runErr, pollVars>>
    /\ UNCHANGED <<tagVars, restVars, exitCode>>

\* pollForAccessToken with the timeout channel made anew after a slow_down
deadlineAfter_Renewed(t, it) ==
    IF it.reset THEN DurAdd(t, Seconds(it.interval)) ELSE t

\* the channel of time.After is made once, before the loop: no iteration touches it
deadlineAfter(t, it) == t

\* the HTTP call returns r: the rest of getAccessToken and of the loop's iteration.
\* On slow_down the ticker is replaced and time.Sleep(time.Duration(interval))
\* sleeps interval NANOSECONDS.
PollReturns(r) ==
    /\ pc = "inflight"
    /\ LET it == pollIteration(interval, getAccessToken(r))
       IN  /\ interval' = it.interval
           /\ pc' = CASE it.do = "return" -> "returned"
                      [] it.do = "panic" -> "panic"
                      [] OTHER -> "select"
           /\ ret' = IF it.do = "return" THEN [auth |-> it.auth, err |-> it.err] ELSE ret
           /\ runErr' = IF it.do = "return" /\ it.err # NoErr
                            THEN Wrap(ErrPoll, it.err)
                            ELSE runErr
           /\ period' = IF it.reset THEN TickPeriod(it.interval) ELSE period
           /\ ticker' = IF it.reset THEN DurAdd(now, TickPeriod(it.interval)) ELSE ticker
           /\ now' = IF it.reset THEN DurAdd(now, <<0, it.interval>>) ELSE now
           /\ currentInterval' = IF it.reset THEN r.body.interval ELSE currentInterval
           /\ printed' = IF it.reset THEN printed \cup {"slow down"} ELSE printed
           /\ timeout' = deadlineAfter(timeout, it)
    /\ lastResp' = r
    /\ respCount' = respCount + 1
    /\ intervalBefore' = interval
    /\ onlyPending' = (onlyPending /\ (lastResp = NoResp \/ IsPending(lastResp)))
    /\ UNCHANGED <<devResp, authResponse, pollCount, lastPollAt, prevPollAt>>
    /\ UNCHANGED <<tagVars, browser, reqVars, relVars, preVars, pollReq, relCount, pureVars,
                   exitCode>>

\* pollForAccessToken has returned without an error
PollSucceeded == pc = "returned" /\ ret.err = NoErr

\* run() printing the token next to its type
releasesOutput_Token(auth) == {auth.TokenType, auth.AccessToken, "RELEASES"}

\* fmt.Println(userAuthResponse.TokenType) and fmt.Printf("RELEASES: %v\n", releases)
releasesOutput(auth) == {auth.TokenType, "RELEASES"}

\* run(): releases, err := getReleases(gURL), answered by r; the list is printed and
\* the error is overwritten by the next call, so r leaves no trace in run
GetReleases(r) ==
    /\ PollSucceeded
    /\ relpc = "idle"
    /\ relpc' = "createRelease"
    /\ printed' = printed \cup releasesOutput(ret.auth)
    /\ UNCHANGED <<pc, now, devResp, authResponse, runErr, pollVars, tagVars, browser, reqVars,
                   relReq, relResp, relRet, preVars, pollReq, relCount, pureVars, exitCode>>

\* run() calling createRelease again when it has failed
afterCreateRelease_Retry(result) ==
    IF result.err # NoErr THEN "createRelease" ELSE "done"

\* run() after createRelease: whatever it returned, run returns
afterCreateRelease(result) == "done"

\* run(): resp, err := createRelease(userAuthResponse, gURL, tag, tagMessage, "",
\* false, false), answered by r; resp is printed, err is not looked at, and run
\* returns nil
CreateRelease(r) ==
    /\ PollSucceeded
    /\ relpc = "createRelease"
    /\ relCount < MaxReleases
    /\ LET built == createReleaseRequest(ret.auth, GitURL, tag, tagMessage, <<>>, FALSE, FALSE)
       IN  /\ relReq' = built.req
           /\ relResp' = IF built.err = NoErr THEN r ELSE NoHttpResp
           /\ relRet' = IF built.err = NoErr THEN createReleaseResult(r)
                                             ELSE [release |-> NilRelease, err |-> built.err]
           /\ relCount' = IF built.err = NoErr THEN relCount + 1 ELSE relCount
           /\ relpc' = afterCreateRelease(relRet')
    /\ printed' = printed \cup {"params", "CREATE RELEASE RESPONSE"}
    /\ runErr' = NoRunErr
    /\ UNCHANGED <<pc, now, devResp, authResponse, pollVars, tagVars, browser, reqVars,
                   preVars, pollReq, pureVars, exitCode>>

\* run() has returned
RunReturned == pc = "aborted" \/ (pc = "returned" /\ ret.err # NoErr) \/ relpc = "done"

\* Execute(): an error of rootCmd.Execute() is printed and the process exits with 2
Execute ==
    /\ RunReturned
    /\ exitCode = Absent
    /\ exitCode' = IF runErr # NoRunErr THEN 2 ELSE 0
    /\ UNCHANGED <<pc, now, devResp, authResponse, runErr, pollVars, tagVars, restVars>>

Next ==
    \/ \E r \in DeviceResponses : RequestCodes(r)
    \/ \E goos \in Platforms, started \in BOOLEAN : StartPolling(goos, started)
    \/ SelectTimeout
    \/ SelectTicker
    \/ Elapse
    \/ \E r \in PollResponses : PollReturns(r)
    \/ \E r \in ReleaseResponses : GetReleases(r)
    \/ \E r \in ReleaseResponses : CreateRelease(r)
    \/ Execute

Spec == Init /\ [][Next]_vars

\* the device flow and the release under the scheduling of the code: the select
\* statement takes a ready channel, and among two ready channels it takes each with
\* the same probability, so the timeout that is ready at every select is taken in
\* the end; and every poll request returns
FairSpec ==
    /\ Spec
    /\ WF_vars(SelectTimeout \/ SelectTicker)
    /\ SF_vars(SelectTimeout)
    /\ WF_vars(\E r \in PollResponses : PollReturns(r))

\* ------------------------------------------------------------- run() before the device flow
ErrUserHalt == "tag exists; execution halted by user"
ErrTagExists == "tag already exists"
ErrMissingMessage == "message is required"
ErrStorage == "storage error"
ErrObjectNotFound == "object not found"
ErrHead == "reference not found"
ErrEditor == "executable file not found in $PATH"
ErrAgent == "error creating SSH agent"
ErrPush == "push failed"
ErrBuild == "build failed"

\* the clones explored: up to MaxTags tag references with distinct names
Repos ==
    {r \in UNION {[1 .. n -> TagRefs] : n \in 0 .. MaxTags} :
        \A i, j \in 1 .. Len(r) : r[i].Name = r[j].Name => i = j}

\* a line read from standard input: its text, in capitals or not, with blanks
\* around it or not
Answers == [text : {"y", "yes", "n", "no", "maybe"}, upper : BOOLEAN, padded : BOOLEAN]

\* strings.ToLower(strings.TrimSpace(response))
Normalise(a) == [text |-> a.text, upper |-> FALSE, padded |-> FALSE]

Plain(t) == [text |-> t, upper |-> FALSE, padded |-> FALSE]

\* checkoutCommitish without the call of Worktree.Checkout
checkoutCommitish_NoCheckout(hd, h, ok) == [head |-> hd, err |-> NoErr]

\* checkoutCommitish(repo, h): nothing for the zero hash, else Worktree.Checkout of
\* the hash, which fails for a hash that names no commit
checkoutCommitish(hd, h, ok) ==
    IF h = ZeroHash THEN [head |-> hd, err |-> NoErr]
    ELSE IF h \notin Commits THEN [head |-> hd, err |-> ErrObjectNotFound]
    ELSE IF ~ok THEN [head |-> hd, err |-> ErrStorage]
    ELSE [head |-> h, err |-> NoErr]

\* Repository.CreateTag(name, hash, opts) of go-git: refuses a name whose reference
\* exists, then CreateTagOptions.Validate refuses Message == "", then the tag
\* object and the reference are written
CreateTag(repo, name, hash, message, storageOk) ==
    IF \E i \in 1 .. Len(repo) : repo[i].Name = name
        THEN [err |-> ErrTagExists, repo |-> repo, obj |-> NilTag]
    ELSE IF message = EmptyString
        THEN [err |-> ErrMissingMessage, repo |-> repo, obj |-> NilTag]
    ELSE IF ~storageOk THEN [err |-> ErrStorage, repo |-> repo, obj |-> NilTag]
    ELSE [err |-> NoErr,
          repo |-> Append(repo, [Name |-> name, annotated |-> TRUE, Target |-> hash]),
          obj |-> [nil |-> FALSE, Name |-> name, Target |-> hash, Message |-> message]]

TagInit ==
    /\ pc = "getTag"
    /\ now = Zero
    /\ devResp = NoDeviceResp
    /\ authResponse = NilDeviceAuth
    /\ runErr = NoRunErr
    /\ interval = 0
    /\ timeout = Zero
    /\ ticker = Zero
    /\ period = Zero
    /\ ret = [auth |-> NilAuth, err |-> NoErr]
    /\ pollCount = 0
    /\ respCount = 0
    /\ lastPollAt = Zero
    /\ prevPollAt = Zero
    /\ lastResp = NoResp
    /\ intervalBefore = 0
    /\ onlyPending = TRUE
    /\ currentInterval = 0
    /\ tag \in TagNames
    /\ force \in BOOLEAN
    /\ commitish \in Commitishes
    /\ tagMessage \in ConfigMessages
    /\ repoTags \in Repos
    /\ cloned = repoTags
    /\ head = HeadCommit
    /\ tagObj = NilTag
    /\ reads = 0
    /\ answer = ""
    /\ calls = <<>>
    /\ created = NilTag
    /\ pushed = FALSE
    /\ pushErr = NoPush
    /\ repositoryURL = GitURL.raw
    /\ cloneState = "cloned"
    /\ RestIdle

\* run() returns e
Abort(e) == pc' = "aborted" /\ runErr' = e

\* run's branch with a forced run taking the else branch, that of a new tag
tagBranch_ForceCreates(t, f) ==
    IF t.nil \/ f THEN "checkoutCommitish" ELSE "confirm"

\* run's branch with the question asked whether force is set or not
tagBranch_ForceAsks(t, f) ==
    IF t.nil THEN "checkoutCommitish" ELSE "confirm"

\* if tagObj != nil { if !force { confirm } checkoutCommitish(tagObj.Target) }
\* else { checkoutCommitish(NewHash(commitish)); createTag }
tagBranch(t, f) ==
    IF t.nil THEN "checkoutCommitish"
    ELSE IF f THEN "checkoutTag" ELSE "confirm"

\* tagObj, err := getTagFromString(tag, repo), and the branch run takes on it
GetTag ==
    /\ pc = "getTag"
    /\ tagObj' = getTagFromString(tag, repoTags)
    /\ pc' = tagBranch(tagObj', force)
    /\ calls' = IF pc' = "confirm"
                    THEN calls \o <<"getTagFromString", "confirm">>
                    ELSE Append(calls, "getTagFromString")
    /\ UNCHANGED <<runErr, devVars, exitCode, flags, tagMessage, repoTags, head, reads, answer,
                   created, pushed, pushErr>>

\* confirm's comparison with "no" left out: only n refuses
confirmAnswer_OnlyN(response) ==
    IF response \in {Plain("y"), Plain("yes")} THEN "true"
    ELSE IF response = Plain("n") THEN "false"
    ELSE "again"

\* if response == "y" || response == "yes" { return true }
\* else if response == "n" || response == "no" { return false }, else the loop
\* goes round
confirmAnswer(response) ==
    IF response \in {Plain("y"), Plain("yes")} THEN "true"
    ELSE IF response \in {Plain("n"), Plain("no")} THEN "false"
    ELSE "again"

\* one turn of confirm's loop: the question is printed and a line is read; run
\* returns an error when confirm returns false
Confirm(a) ==
    /\ pc = "confirm"
    /\ reads < MaxReads
    /\ reads' = reads + 1
    /\ answer' = Normalise(a).text
    /\ LET c == confirmAnswer(Normalise(a))
       IN  IF c = "true" THEN pc' = "checkoutTag" /\ runErr' = runErr
           ELSE IF c = "false" THEN Abort(Wrap("", ErrUserHalt))
           ELSE pc' = "confirm" /\ runErr' = runErr
    /\ UNCHANGED <<devVars, exitCode, flags, tagMessage, repoTags, head, tagObj, calls,
                   created, pushed, pushErr>>

\* reader.ReadString fails (standard input is closed): os.Exit(1)
ConfirmReadFails ==
    /\ pc = "confirm"
    /\ reads < MaxReads
    /\ reads' = reads + 1
    /\ answer' = answer
    /\ pc' = "exit"
    /\ exitCode' = 1
    /\ UNCHANGED <<runErr, devVars, flags, tagMessage, repoTags, head, tagObj,
                   calls, created, pushed, pushErr>>

\* repo, err = checkoutCommitish(repo, tagObj.Target)
CheckoutTag(ok) ==
    /\ pc = "checkoutTag"
    /\ calls' = Append(calls, "checkoutCommitish")
    /\ LET c == checkoutCommitish(head, tagObj.Target, ok)
       IN  /\ head' = c.head
           /\ IF c.err # NoErr
                  THEN Abort(Wrap("", c.err))
                  ELSE pc' = "makeBuild" /\ runErr' = runErr
    /\ UNCHANGED <<devVars, exitCode, flags, tagMessage, repoTags, tagObj, reads, answer,
                   created, pushed, pushErr>>

\* repo, err = checkoutCommitish(repo, plumbing.NewHash(commitish)), then run
\* calls createTag
CheckoutCommitish(ok) ==
    /\ pc = "checkoutCommitish"
    /\ LET c == checkoutCommitish(head, NewHash(commitish), ok)
       IN  /\ head' = c.head
           /\ IF c.err # NoErr
                  THEN /\ Abort(Wrap("", c.err))
                       /\ calls' = Append(calls, "checkoutCommitish")
                  ELSE /\ pc' = "createTag"
                       /\ runErr' = runErr
                       /\ calls' = calls \o <<"checkoutCommitish", "createTag">>
    /\ UNCHANGED <<devVars, exitCode, flags, tagMessage, repoTags, tagObj, reads, answer,
                   created, pushed, pushErr>>

\* createTag up to the call of setTag: without a message the editor is opened on
\* annotatedTagPrompt and what it leaves is the message; the comment lines are
\* stripped
CreateTagMessage(e) ==
    /\ pc = "createTag"
    /\ tagMessage' = stripComments(IF tagMessage = EmptyString THEN e ELSE tagMessage)
    /\ calls' = IF tagMessage = EmptyString
                    THEN Append(calls, "captureInputFromEditor")
                    ELSE calls
    /\ pc' = "setTag"
    /\ UNCHANGED <<runErr, devVars, exitCode, flags, repoTags, head, tagObj, reads, answer,
                   created, pushed, pushErr>>

\* captureInputFromEditor fails: createTag returns the error as it is
EditorFails ==
    /\ pc = "createTag"
    /\ tagMessage = EmptyString
    /\ calls' = Append(calls, "captureInputFromEditor")
    /\ Abort(Wrap("cannot create tag", ErrEditor))
    /\ UNCHANGED <<devVars, exitCode, flags, tagMessage, repoTags, head, tagObj, reads, answer,
                   created, pushed, pushErr>>

\* createTag going on to the push whatever setTag returned
afterSetTag_PushAnyway(err) == [pc |-> "pushTags", err |-> NoRunErr]

\* createTag after setTag: if err != nil { return fmt.Errorf("failed creating tag:
\* %s", err) }, which run wraps in "cannot create tag: %s"; if tagged { pushTags }
afterSetTag(err) ==
    IF err # NoErr
        THEN [pc |-> "aborted", err |-> Wrap("cannot create tag", Wrap("failed creating tag", err))]
        ELSE [pc |-> "pushTags", err |-> NoRunErr]

\* setTag as createTag calls it: repo.Head(), then repo.CreateTag(tag, head.Hash(),
\* createOpts); createTag wraps its error. The error of repo.ConfigScoped was
\* dropped, so a configuration that cannot be read is a nil dereference in the
\* arguments of setTag
SetTag(outcome) ==
    /\ pc = "setTag"
    /\ IF outcome = "config_err"
           THEN /\ pc' = "panic"
                /\ UNCHANGED <<runErr, calls, repoTags, created>>
       ELSE IF outcome = "head_err"
           THEN /\ pc' = afterSetTag(ErrHead).pc
                /\ runErr' = afterSetTag(ErrHead).err
                /\ calls' = Append(calls, "setTag")
                /\ UNCHANGED <<repoTags, created>>
       ELSE LET t == CreateTag(repoTags, tag, head, tagMessage, outcome = "ok")
            IN  /\ calls' = calls \o <<"setTag", "repo.CreateTag">>
                /\ repoTags' = t.repo
                /\ created' = t.obj
                /\ pc' = afterSetTag(t.err).pc
                /\ runErr' = afterSetTag(t.err).err
    /\ UNCHANGED <<devVars, exitCode, flags, tagMessage, head, tagObj, reads, answer, pushed,
                   pushErr>>

\* git.NoErrAlreadyUpToDate, the error repo.Push returns when the remote has the
\* references already
NoErrAlreadyUpToDate == "already up-to-date"

\* pushTags returning every error of repo.Push, NoErrAlreadyUpToDate with them
pushTags_UpToDateFails(err) == err

\* pushTags after repo.Push: if err != nil { if err == git.NoErrAlreadyUpToDate {
\* return nil }; return err }; return nil
pushTags(err) == IF err = NoErrAlreadyUpToDate THEN NoErr ELSE err

\* pushTags: the SSH agent, then repo.Push of refs/tags/*; createTag wraps the
\* error in "failed pushing tag to remote" and run in "cannot create tag"
PushTags(outcome) ==
    /\ pc = "pushTags"
    /\ LET e == CASE outcome = "ok" -> NoErr
                  [] outcome = "up_to_date" -> NoErrAlreadyUpToDate
                  [] OTHER -> ErrPush
           r == IF outcome = "agent_err" THEN ErrAgent ELSE pushTags(e)
       IN  /\ calls' = IF outcome = "agent_err"
                           THEN Append(calls, "pushTags")
                           ELSE calls \o <<"pushTags", "repo.Push">>
           /\ pushErr' = IF outcome = "agent_err" THEN NoPush ELSE e
           /\ pushed' = (outcome = "ok")
           /\ IF r = NoErr
                  THEN pc' = "makeBuild" /\ runErr' = runErr
                  ELSE Abort(Wrap("cannot create tag", Wrap("failed pushing tag to remote", r)))
    /\ UNCHANGED <<devVars, exitCode, flags, tagMessage, repoTags, head, tagObj, reads, answer,
                   created>>

\* err = makeBuild(tempDir): the build of the release artifacts in the work tree
MakeBuild(ok) ==
    /\ pc = "makeBuild"
    /\ calls' = Append(calls, "makeBuild")
    /\ IF ok
           THEN pc' = "requestCodes" /\ runErr' = runErr
           ELSE Abort(Wrap("failed building artifacts", ErrBuild))
    /\ UNCHANGED <<devVars, exitCode, flags, tagMessage, repoTags, head, tagObj, reads, answer,
                   created, pushed, pushErr>>

TagNext ==
    \/ GetTag
    \/ \E a \in Answers : Confirm(a)
    \/ ConfirmReadFails
    \/ \E ok \in BOOLEAN : CheckoutTag(ok)
    \/ \E ok \in BOOLEAN : CheckoutCommitish(ok)
    \/ \E e \in EditorOutputs : CreateTagMessage(e)
    \/ EditorFails
    \/ \E o \in {"ok", "config_err", "head_err", "storage_err"} : SetTag(o)
    \/ \E o \in {"ok", "up_to_date", "agent_err", "push_err"} : PushTags(o)
    \/ \E ok \in BOOLEAN : MakeBuild(ok)
    \/ \E r \in DeviceResponses : RequestCodes(r)

\* run() from the clone to the device-authorization response
TagSpec == TagInit /\ [][TagNext]_vars

\* ------------------------------------------------------------- the request helpers
Urls == {TestURL, BadURL}

ReqInputs ==
    {[url |-> u, params |-> v, headers |-> <<>>] : u \in Urls, v \in ParamSets}
    \cup {[url |-> u, params |-> EmptyValues, headers |-> h] : u \in Urls, h \in HeaderLists}

\* a helper is about to be called with reqIn
ReqInit ==
    /\ pc = "helper"
    /\ now = Zero
    /\ devResp = NoDeviceResp
    /\ authResponse = NilDeviceAuth
    /\ runErr = NoRunErr
    /\ interval = 0
    /\ timeout = Zero
    /\ ticker = Zero
    /\ period = Zero
    /\ ret = [auth |-> NilAuth, err |-> NoErr]
    /\ pollCount = 0
    /\ respCount = 0
    /\ lastPollAt = Zero
    /\ prevPollAt = Zero
    /\ lastResp = NoResp
    /\ intervalBefore = 0
    /\ onlyPending = TRUE
    /\ currentInterval = 0
    /\ tag = V1
    /\ force = FALSE
    /\ commitish = [kind |-> "empty"]
    /\ tagMessage = <<"txt">>
    /\ repoTags = <<>>
    /\ cloned = repoTags
    /\ head = HeadCommit
    /\ tagObj = NilTag
    /\ reads = 0
    /\ answer = ""
    /\ calls = <<>>
    /\ created = NilTag
    /\ pushed = FALSE
    /\ pushErr = NoPush
    /\ repositoryURL = GitURL.raw
    /\ cloneState = "none"
    /\ reqIn \in ReqInputs
    /\ reqBy = ""
    /\ req = NoBuilt
    /\ httpResp = NoHttpResp
    /\ httpRet = NoHttpRet
    /\ RunIdle
    /\ CfgIdle
    /\ StripIdle

runVars == <<pc, now, devResp, authResponse, runErr, pollVars, tagVars, browser, relVars, outVars,
             preVars, exitCode>>

\* req, err := newPostRequest(url, params, headers...)
NewPostRequest ==
    /\ pc = "helper"
    /\ reqBy = ""
    /\ reqBy' = "newPostRequest"
    /\ req' = newPostRequest(reqIn.url, reqIn.params, reqIn.headers)
    /\ UNCHANGED <<runVars, pureVars, reqIn, httpResp, httpRet>>

\* req, err := newGetRequest(url, params)
NewGetRequest ==
    /\ pc = "helper"
    /\ reqBy = ""
    /\ reqIn.headers = <<>>
    /\ reqBy' = "newGetRequest"
    /\ req' = newGetRequest(reqIn.url, reqIn.params)
    /\ UNCHANGED <<runVars, pureVars, reqIn, httpResp, httpRet>>

\* body, err := makeHTTPRequest(req), the request answered by r
MakeHTTPRequest(r) ==
    /\ pc = "helper"
    /\ reqBy # ""
    /\ req.err = NoErr
    /\ httpResp = NoHttpResp
    /\ httpResp' = r
    /\ httpRet' = makeHTTPRequest(r)
    /\ UNCHANGED <<runVars, pureVars, reqIn, reqBy, req>>

ReqNext ==
    \/ NewPostRequest
    \/ NewGetRequest
    \/ \E r \in HttpResponses : MakeHTTPRequest(r)

ReqSpec == ReqInit /\ [][ReqNext]_vars

\* ------------------------------------------------------------- the whole run
\* repository URLs given on the command line: none, one parseGitURL's expression
\* matches, and one it does not match
RepositoryURLs == {"", GitURL.raw, "example"}

ErrMissing == "missing information"
ErrTempDir == "cannot create temporary directory"
ErrClone == "cannot clone repository"

\* PreRun without the exit on the errors of initialValidation
preRun_NoExit(url) == "parseGitURL"

\* PreRun: errs := initialValidation(), which asks for repositoryURL alone;
\* os.Exit(1) when there is an error, run() otherwise
preRun(url) == IF url = "" THEN "exit" ELSE "parseGitURL"

\* the process starts: PreRun has read the flags
RunInit ==
    /\ pc = "preRun"
    /\ now = Zero
    /\ devResp = NoDeviceResp
    /\ authResponse = NilDeviceAuth
    /\ runErr = NoRunErr
    /\ interval = 0
    /\ timeout = Zero
    /\ ticker = Zero
    /\ period = Zero
    /\ ret = [auth |-> NilAuth, err |-> NoErr]
    /\ pollCount = 0
    /\ respCount = 0
    /\ lastPollAt = Zero
    /\ prevPollAt = Zero
    /\ lastResp = NoResp
    /\ intervalBefore = 0
    /\ onlyPending = TRUE
    /\ currentInterval = 0
    /\ tag \in {V1, <<>>}
    /\ force \in BOOLEAN
    /\ commitish = [kind |-> "empty"]
    /\ tagMessage \in {<<"txt">>, EmptyString}
    /\ repoTags \in {<<>>, <<[Name |-> V1, annotated |-> TRUE, Target |-> "c1"]>>}
    /\ cloned = repoTags
    /\ head = HeadCommit
    /\ tagObj = NilTag
    /\ reads = 0
    /\ answer = ""
    /\ calls = <<>>
    /\ created = NilTag
    /\ pushed = FALSE
    /\ pushErr = NoPush
    /\ repositoryURL \in RepositoryURLs
    /\ cloneState = "none"
    /\ RestIdle

\* PreRun, then RunE
PreRun ==
    /\ pc = "preRun"
    /\ pc' = preRun(repositoryURL)
    /\ exitCode' = IF preRun(repositoryURL) = "exit" THEN 1 ELSE exitCode
    /\ UNCHANGED <<now, devResp, authResponse, runErr, pollVars, tagVars, restVars>>

\* run(): gURL, err := parseGitURL(repositoryURL). matches is nil when the
\* expression does not match, and matches[...] panics
ParseGitURL ==
    /\ pc = "parseGitURL"
    /\ pc' = IF repositoryURL = GitURL.raw THEN "cloneRepo" ELSE "panic"
    /\ UNCHANGED <<now, devResp, authResponse, runErr, pollVars, tagVars, restVars, exitCode>>

\* run(): createTempDir, cloneRepo (the SSH agent, then git.PlainClone) and
\* postCloneValidation, which asks for a tag
CloneRepo(outcome) ==
    /\ pc = "cloneRepo"
    /\ cloneState' = CASE outcome = "ok" -> "cloned"
                        [] outcome = "clone_err" -> "failed"
                        [] OTHER -> "none"
    /\ IF outcome = "tempdir_err" THEN Abort(Wrap(ErrTempDir, "ioutil.TempDir"))
       ELSE IF outcome = "agent_err" THEN Abort(Wrap(ErrClone, ErrAgent))
       ELSE IF outcome = "clone_err" THEN Abort(Wrap(ErrClone, "git.PlainClone"))
       ELSE IF tag = <<>> THEN Abort(Wrap("", ErrMissing))
       ELSE pc' = "getTag" /\ runErr' = runErr
    /\ UNCHANGED <<now, devResp, authResponse, pollVars, tagVars, browser, reqVars, relVars, outVars, pureVars,
                   repositoryURL, exitCode>>

\* the answers, device authorizations and poll responses of the whole run
RunAnswers == {a \in Answers : ~a.upper /\ ~a.padded}

RunDeviceResponses ==
    {r \in DeviceResponses :
        r.transport = "ok" => r.status # 200 \/ r.body = DeviceBody("object", 2, 1)}

RunPollResponses ==
    {r \in PollResponses :
        r.transport = "ok" =>
            /\ r.status \in {200, 404}
            /\ r.body \in {PendingBody, SuccessBody, PollBody("object", NoField, Absent, ""),
                            PollBody("object", "access_denied", Absent, "")}}

RunNext ==
    \/ PreRun
    \/ ParseGitURL
    \/ \E o \in {"ok", "tempdir_err", "agent_err", "clone_err"} : CloneRepo(o)
    \/ GetTag
    \/ \E a \in RunAnswers : Confirm(a)
    \/ ConfirmReadFails
    \/ \E ok \in BOOLEAN : CheckoutTag(ok)
    \/ \E ok \in BOOLEAN : CheckoutCommitish(ok)
    \/ \E e \in {<<"txt">>} : CreateTagMessage(e)
    \/ EditorFails
    \/ \E o \in {"ok", "config_err", "head_err", "storage_err"} : SetTag(o)
    \/ \E o \in {"ok", "up_to_date", "agent_err", "push_err"} : PushTags(o)
    \/ \E ok \in BOOLEAN : MakeBuild(ok)
    \/ \E r \in RunDeviceResponses : RequestCodes(r)
    \/ \E goos \in Platforms, started \in BOOLEAN : StartPolling(goos, started)
    \/ SelectTimeout
    \/ SelectTicker
    \/ Elapse
    \/ \E r \in RunPollResponses : PollReturns(r)
    \/ \E r \in ReleaseResponses : GetReleases(r)
    \/ \E r \in ReleaseResponses : CreateRelease(r)
    \/ Execute

\* the process from PreRun to its exit
RunSpec == RunInit /\ [][RunNext]_vars

\* ------------------------------------------------------------- stripComments
\* the texts stripComments is given: comment signs, other characters and newlines
TextChars == {"#", "t", "\n"}

MaxText == 4

Texts == UNION {[1 .. n -> TextChars] : n \in 0 .. MaxText}

\* everything of the run at rest, for the functions checked on their own
HelperIdle ==
    /\ now = Zero
    /\ devResp = NoDeviceResp
    /\ authResponse = NilDeviceAuth
    /\ runErr = NoRunErr
    /\ interval = 0
    /\ timeout = Zero
    /\ ticker = Zero
    /\ period = Zero
    /\ ret = [auth |-> NilAuth, err |-> NoErr]
    /\ pollCount = 0
    /\ respCount = 0
    /\ lastPollAt = Zero
    /\ prevPollAt = Zero
    /\ lastResp = NoResp
    /\ intervalBefore = 0
    /\ onlyPending = TRUE
    /\ currentInterval = 0
    /\ tag = V1
    /\ force = FALSE
    /\ commitish = [kind |-> "empty"]
    /\ tagMessage = <<"txt">>
    /\ repoTags = <<>>
    /\ cloned = repoTags
    /\ head = HeadCommit
    /\ tagObj = NilTag
    /\ reads = 0
    /\ answer = ""
    /\ calls = <<>>
    /\ created = NilTag
    /\ pushed = FALSE
    /\ pushErr = NoPush
    /\ repositoryURL = GitURL.raw
    /\ cloneState = "none"
    /\ ReqIdle
    /\ RunIdle

StripInit ==
    /\ pc = "helper"
    /\ HelperIdle
    /\ CfgIdle
    /\ stripIn \in Texts
    /\ stripOut = <<>>
    /\ stripped = 0

\* tagMessage = stripComments(tagMessage), applied to the text and then to its result
StripComments ==
    /\ pc = "helper"
    /\ stripped < 2
    /\ stripOut' = ReplaceAllString(IF stripped = 0 THEN stripIn ELSE stripOut)
    /\ stripped' = stripped + 1
    /\ UNCHANGED <<runVars, reqVars, optIn, effective, stripIn>>

StripNext == StripComments

StripSpec == StripInit /\ [][StripNext]_vars

\* ------------------------------------------------------------- options
\* the persistent flags of rootCmd that hold an option of the run
Options ==
    {"verbose", "force", "repositoryURL", "commitish", "branch", "tag", "tagMessage", "makeTarget"}

\* viper.BindPFlag(name, rootCmd.PersistentFlags().Lookup(name))
BoundFlags == {"verbose", "force", "repositoryURL", "commitish", "branch", "makeTarget"}

\* the variables PreRun assigns from viper.GetString and viper.GetBool
ReadFromViper == {"verbose", "repositoryURL", "commitish", "branch", "makeTarget"}

\* rootCmd.MarkPersistentFlagRequired("tag")
RequiredFlags == {"tag"}

\* the default of the flag (false, "" or "buildRelease")
DefaultValue == "default"

\* an option, and the value it is given on the command line, in the environment
\* variable of its upper-cased name and in the configuration file that was read
OptionInputs ==
    [name : Options, flag : {NoValue, "flag"}, env : {NoValue, "env"}, file : {NoValue, "file"}]

\* the variable of the flag after cobra has parsed the command line
flagVariable(o) == IF o.flag # NoValue THEN o.flag ELSE DefaultValue

\* viper.Get(name): a bound flag that was set, then the environment
\* (viper.AutomaticEnv), then the configuration file, then the default of a bound
\* flag; the zero value when there is none
viperGet(o) ==
    IF o.name \in BoundFlags /\ o.flag # NoValue THEN o.flag
    ELSE IF o.env # NoValue THEN o.env
    ELSE IF o.file # NoValue THEN o.file
    ELSE IF o.name \in BoundFlags THEN DefaultValue
    ELSE NoValue

CfgInit ==
    /\ pc = "flags"
    /\ HelperIdle
    /\ StripIdle
    /\ optIn \in OptionInputs
    /\ effective = NoValue

cfgRest ==
    <<now, devResp, authResponse, runErr, pollVars, tagVars, browser, relVars, outVars, preVars,
      reqVars, optIn, stripIn, stripOut, stripped>>

\* cobra parses the flags into their variables and refuses the command line when a
\* required flag is not on it; Execute() then exits with 2
ParseFlags ==
    /\ pc = "flags"
    /\ IF optIn.name \in RequiredFlags /\ optIn.flag = NoValue
           THEN pc' = "exit" /\ exitCode' = 2 /\ effective' = effective
           ELSE pc' = "preRun" /\ exitCode' = exitCode /\ effective' = flagVariable(optIn)
    /\ UNCHANGED cfgRest

\* PreRun: verbose = viper.GetBool("verbose"), repositoryURL =
\* viper.GetString("repositoryURL"), ...: the variables it assigns take the value
\* of viper, the others keep what the flags gave them
PreRunSettings ==
    /\ pc = "preRun"
    /\ effective' = IF optIn.name \in ReadFromViper THEN viperGet(optIn) ELSE effective
    /\ pc' = "run"
    /\ UNCHANGED <<cfgRest, exitCode>>

CfgNext == ParseFlags \/ PreRunSettings

CfgSpec == CfgInit /\ [][CfgNext]_vars

\* ------------------------------------------------------------- claims
Polling == pc \in {"select", "inflight"}

\* the last response is a success as the provider means it: decoded, no error
\* field, a non-empty access_token
IsSuccess(r) == Decoded(r) /\ r.body.error = NoField /\ r.body.access_token # ""

\* C1: once the deadline computed from expires_in has passed, pollForAccessToken
\* has returned, and what it returns after the deadline is the timeout error: a
\* poll request that is still outstanding (or never returns) does not delay it.
C1_TimeoutDespiteInFlightPoll ==
    /\ Polling => DurLeq(now, timeout)
    /\ (pc = "returned" /\ DurLess(timeout, now)) => ret.err = ErrTimeout

\* C2: a decoded poll response whose error is expired_token, access_denied,
\* incorrect_device_code, incorrect_client_credentials or unsupported_grant_type
\* ends pollForAccessToken at once: it has returned, no poll was issued after the
\* response, and the error returned (and the one run() wraps) is that error kind.
C2_FatalErrorEndsFlow ==
    (Decoded(lastResp) /\ lastResp.body.error \in FatalErrors)
        => /\ pc = "returned"
           /\ ret.err = lastResp.body.error
           /\ runErr = Wrap(ErrPoll, lastResp.body.error)
           /\ pollCount = respCount

C2_Witness ==
    /\ pc = "returned"
    /\ respCount >= 2
    /\ Decoded(lastResp)
    /\ lastResp.body.error = "access_denied"
    /\ ret.err = "access_denied"

\* C3: a slow_down response after which the flow goes on leaves the interval
\* strictly greater than it was, and no step of the flow ever lowers the interval.
C3_SlowDownIncreasesInterval ==
    [][/\ interval' >= interval
       /\ (respCount' = respCount + 1 /\ IsSlowDown(lastResp') /\ pc' = "select")
              => interval' > interval]_vars

\* C4: when every response so far was authorization_pending and the last one is a
\* success that arrived no later than the deadline, pollForAccessToken has returned
\* that response's token with a nil error, interval and ticker period are those the
\* flow started with, and no more than expires_in seconds have elapsed.
C4_PendingThenSuccess ==
    (IsSuccess(lastResp) /\ onlyPending /\ DurLeq(now, timeout))
        => /\ pc = "returned"
           /\ ret.err = NoErr
           /\ runErr = NoRunErr
           /\ ~ret.auth.nil
           /\ ret.auth.AccessToken = lastResp.body.access_token
           /\ ret.auth.TokenType = lastResp.body.token_type
           /\ interval = authResponse.Interval
           /\ period = TickPeriod(authResponse.Interval)
           /\ DurLeq(now, Seconds(authResponse.ExpiresIn))

C4_Witness ==
    /\ pc = "returned"
    /\ respCount >= 3
    /\ onlyPending
    /\ IsSuccess(lastResp)
    /\ DurLeq(now, timeout)
    /\ ret.auth.AccessToken = Token

\* C5: no poll request is issued after the deadline (start + expires_in).
C5_NoPollAfterDeadline ==
    pollCount > 0 => DurLeq(lastPollAt, timeout)

\* C6: two consecutive poll requests are at least current_interval + 1 seconds
\* apart, current_interval being the provider's interval in force when the later
\* one is issued.
C6_PollCadence ==
    (pc = "inflight" /\ pollCount >= 2)
        => DurLeq(DurAdd(prevPollAt, Seconds(currentInterval + 1)), lastPollAt)

\* C7: pollForAccessToken returns a nil error only for a response that has no
\* error field and carries a non-empty access_token.
C7_SuccessOnlyWithToken ==
    (pc = "returned" /\ ret.err = NoErr) => IsSuccess(lastResp)

\* C8: after a slow_down response the flow is still polling with an interval at
\* least one second longer, whether or not the response carries an interval; a
\* flow whose last response was authorization_pending or slow_down ends only by
\* the deadline's timeout.
C8_SlowDownNeverEndsFlow ==
    /\ (IsPending(lastResp) \/ IsSlowDown(lastResp))
          => (Polling \/ (pc = "returned" /\ ret.err = ErrTimeout))
    /\ IsSlowDown(lastResp) => interval >= intervalBefore + 1

TransportErrors ==
    {ErrDo, ErrRead, "failed to authorize device: 404 Not Found"}
    \cup {StatusText(c) : c \in StatusCodes \ {200}}

\* C9: a poll request that fails in transport, or whose response has a status
\* outside 200..299, ends pollForAccessToken at once: it has returned a transport
\* error and no token, and no poll was issued after it.
C9_TransportFailureEndsFlow ==
    (lastResp # NoResp /\ (lastResp.transport # "ok" \/ ~Is2xx(lastResp.status)))
        => /\ pc = "returned"
           /\ ret.err \in TransportErrors
           /\ ret.auth = NilAuth
           /\ runErr = Wrap(ErrPoll, ret.err)
           /\ pollCount = respCount

C9_Witness ==
    /\ pc = "returned"
    /\ respCount >= 2
    /\ lastResp.transport = "ok"
    /\ lastResp.status = 422
    /\ ret.err = "422 Unprocessable Entity"

\* the device-authorization step failed: no DeviceAuth, run() ended before any poll
DeviceAuthFailed == authResponse.nil /\ pc \in {"aborted", "panic"} /\ pollCount = 0

\* the device-authorization response was decoded into run's authResponse
DeviceAuthAccepted ==
    /\ ~authResponse.nil
    /\ pc \notin {"requestCodes", "aborted"}
    /\ authResponse.DeviceCode = devResp.body.device_code
    /\ authResponse.UserCode = devResp.body.user_code
    /\ authResponse.VerificationURI = devResp.body.verification_uri
    /\ authResponse.ExpiresIn = devResp.body.expires_in
    /\ authResponse.Interval = devResp.body.interval

\* C10 as stated: requestDeviceAndUserCodes fails exactly when the response's status
\* is outside 200..299 or its body is not JSON (read here as: does not decode), and
\* every 2xx response with a body that decodes is accepted.
C10_FailsExactlyOnNon2xxOrBadJSON ==
    (devResp # NoDeviceResp /\ devResp.transport = "ok")
        => IF Is2xx(devResp.status) /\ devResp.body.kind = "object"
               THEN DeviceAuthAccepted
               ELSE DeviceAuthFailed

\* C10 amended: requestDeviceAndUserCodes fails, and no poll is ever issued, exactly
\* when the request fails in transport, the status is not 200, or the body does not
\* unmarshal as a JSON object into DeviceAuth; every 200 response whose body does is
\* decoded field by field into the DeviceAuth run() continues with.
C10_FailsExactlyOnNon200OrUndecodable ==
    devResp # NoDeviceResp
        => IF devResp.transport = "ok" /\ devResp.status = 200 /\ devResp.body.kind = "object"
               THEN DeviceAuthAccepted
               ELSE DeviceAuthFailed

C10_Witness ==
    /\ devResp.transport = "ok"
    /\ devResp.status = 201
    /\ devResp.body.kind = "object"
    /\ pc = "aborted"
    /\ runErr = Wrap("failed requesting device and user codes from github", "201 Created")

\* the stage of the device flow run() is in: NotStarted, CodesRequested, Polling,
\* and the terminal outcomes (pollForAccessToken returned, run aborted or crashed)
Stage(p) ==
    CASE p = "requestCodes" -> 0
      [] p = "prompt" -> 1
      [] p \in {"select", "inflight"} -> 2
      [] OTHER -> 3

Terminal == Stage(pc) = 3

\* the device-authorization response was a 200 whose body decoded
DeviceAuthSucceeded ==
    devResp.transport = "ok" /\ devResp.status = 200 /\ devResp.body.kind = "object"

Authorized == pc = "returned" /\ ret.err = NoErr /\ ~ret.auth.nil

TimedOut == pc = "returned" /\ ret.err = ErrTimeout /\ ret.auth.nil

Failed == pc \in {"aborted", "panic"} \/ (pc = "returned" /\ ret.err \notin {NoErr, ErrTimeout})

\* C11: the device flow only moves forward through NotStarted, CodesRequested,
\* Polling and a terminal outcome: no step takes it back to an earlier stage, the
\* codes are shown and polling is entered only after a device-authorization
\* response that succeeded, a poll request is sent only while Polling, a terminal
\* outcome is exactly one of Authorized, Failed and TimedOut and is reached with
\* no poll request outstanding, and nothing changes once it is reached.
C11_DeviceFlowOnlyMovesForward ==
    [][/\ Stage(pc') >= Stage(pc)
       /\ Stage(pc') \in {1, 2} => (DeviceAuthSucceeded' /\ ~authResponse'.nil)
       /\ pollCount' # pollCount
              => (pc = "select" /\ pc' = "inflight" /\ DeviceAuthSucceeded
                  /\ pollCount' = pollCount + 1)
       /\ Terminal' => /\ pollCount' = respCount'
                       /\ (Authorized' \/ Failed' \/ TimedOut')
                       /\ ~(Authorized' /\ Failed') /\ ~(Authorized' /\ TimedOut')
                       /\ ~(Failed' /\ TimedOut')
       /\ Terminal => UNCHANGED <<pc, pollCount, ret>>]_vars

C11_Witness ==
    /\ TimedOut
    /\ pollCount >= 2
    /\ IsPending(lastResp)
    /\ DeviceAuthSucceeded

\* the requested tag is the name of an annotated tag of the clone
TagExists == \E i \in 1 .. Len(cloned) : cloned[i].annotated /\ cloned[i].Name = tag

\* run has called c
Called(c) == \E i \in 1 .. Len(calls) : calls[i] = c

\* the call of c comes before the call of d
Before(c, d) ==
    \E i, j \in 1 .. Len(calls) : i < j /\ calls[i] = c /\ calls[j] = d

\* C12: when the requested tag is the name of an existing (annotated) tag of the
\* clone, run calls none of createTag, setTag and repo.CreateTag, whatever force,
\* the commit-ish and the answers read: the tag references stay as cloned, no tag
\* object is stored and nothing is pushed.
C12_ExistingTagNeverRecreated ==
    TagExists
        => /\ ~Called("createTag") /\ ~Called("setTag") /\ ~Called("repo.CreateTag")
           /\ ~Called("pushTags")
           /\ repoTags = cloned
           /\ created.nil
           /\ ~pushed

C12_Witness ==
    /\ TagExists
    /\ ~force
    /\ commitish = [kind |-> "hash", hash |-> HeadCommit]
    /\ reads = 2
    /\ Called("makeBuild")
    /\ pc = "requestCodes"

\* run has gone on after the question of the existing tag
Proceeded == pc = "checkoutTag" \/ Called("checkoutCommitish")

C14_DeclineAbortsRun ==
    (TagExists /\ ~force /\ reads >= 1 /\ answer \in {"n", "no"})
        => /\ pc = "aborted"
           /\ runErr = Wrap("", ErrUserHalt)
           /\ calls = <<"getTagFromString", "confirm">>
           /\ head = HeadCommit
           /\ repoTags = cloned
           /\ created.nil
           /\ ~pushed
           /\ devResp = NoDeviceResp
           /\ authResponse.nil
           /\ pollCount = 0

C14_Witness ==
    /\ TagExists
    /\ ~force
    /\ reads = 2
    /\ answer = "no"
    /\ pc = "aborted"
    /\ runErr[2] = ErrUserHalt

\* C15: when a new tag is to be created and the message is empty once the comment
\* lines are stripped (nothing but empty lines is left of what -m, the
\* configuration or the editor gave), createTag aborts with an error before any
\* write: repo.CreateTag and pushTags are not called, no tag object is stored and
\* nothing is pushed.
C15_EmptyMessageAbortsTagging ==
    (Called("createTag") /\ pc # "createTag" /\ IsBlank(tagMessage))
        => /\ pc \in {"setTag", "aborted", "panic"}
           /\ ~Called("repo.CreateTag")
           /\ ~Called("pushTags")
           /\ created.nil
           /\ repoTags = cloned
           /\ ~pushed

\* the commit-ish names a tag reference of the clone
CommitishIsTag ==
    commitish.kind = "name" /\ \E i \in 1 .. Len(cloned) : cloned[i].Name = commitish.name

\* the commit-ish is given and resolves to no commit: a hash of no object, or a
\* name that no reference of the clone bears
Unresolvable ==
    \/ commitish.kind = "hash" /\ commitish.hash \notin Commits
    \/ commitish.kind = "name" /\ ~CommitishIsTag

\* C16: when the requested tag does not exist and the commit-ish given resolves to
\* no commit, run has failed with an error once it is past the checkout of the
\* commit-ish: createTag is not called and no tag is created at the clone's head.
C16_UnresolvableCommitishFails ==
    (tagObj.nil /\ Unresolvable /\ pc \notin {"getTag", "checkoutCommitish"})
        => /\ pc = "aborted"
           /\ runErr[2] # NoErr
           /\ ~Called("createTag")
           /\ created.nil
           /\ repoTags = cloned

\* the commit the tag named by the commit-ish points at
CommitishTarget ==
    (CHOOSE t \in {cloned[i] : i \in 1 .. Len(cloned)} : t.Name = commitish.name).Target

\* C17: when the commit-ish is the name of an existing tag, the commit checked out
\* for the new tag, and the one the new tag is created at, is that tag's target,
\* and the tag references of the clone gain the new tag only.
C17_CommitishTagResolvedToTarget ==
    (tagObj.nil /\ CommitishIsTag /\ Called("createTag"))
        => /\ head = CommitishTarget
           /\ ~created.nil => (created.Name = tag /\ created.Target = CommitishTarget)
           /\ Len(repoTags) <= Len(cloned) + 1

\* the commit the existing tag points at
ExistingTarget ==
    (CHOOSE t \in {cloned[i] : i \in 1 .. Len(cloned)} : t.annotated /\ t.Name = tag).Target

CreateTagFailed == Called("repo.CreateTag") /\ created.nil

\* C20: when repo.CreateTag fails, run has returned its error under the contexts
\* "cannot create tag" and "failed creating tag", repo.CreateTag was called once
\* only, pushTags was not called, and neither the build nor the device
\* authorization was started.
C20_TagCreationFailureAborts ==
    CreateTagFailed
        => /\ pc = "aborted"
           /\ runErr[1] = "cannot create tag"
           /\ runErr[2][1] = "failed creating tag"
           /\ runErr[2][2] \in {ErrTagExists, ErrMissingMessage, ErrStorage}
           /\ \A i, j \in 1 .. Len(calls) :
                  (calls[i] = "repo.CreateTag" /\ calls[j] = "repo.CreateTag") => i = j
           /\ ~Called("pushTags")
           /\ ~pushed
           /\ repoTags = cloned
           /\ ~Called("makeBuild")
           /\ devResp = NoDeviceResp
           /\ pollCount = 0

C20_Witness ==
    /\ CreateTagFailed
    /\ pc = "aborted"
    /\ runErr[1] = "cannot create tag"
    /\ runErr[2] = Wrap("failed creating tag", ErrStorage)
    /\ tagMessage = <<"txt", "", "", "", "", "">>

\* the helper named has returned a request and no error
Built(by) == reqBy = by /\ req.err = NoErr

\* the i-th map of the caller has a key that is the header k
Supplies(i, k) == \E x \in DOMAIN reqIn.headers[i] : CanonicalMIMEHeaderKey(x) = k

Supplied(k) == \E i \in 1 .. Len(reqIn.headers) : Supplies(i, k)

\* the value the last of the caller's maps with the header k gives it
LastSupplied(k) ==
    LET i == CHOOSE i \in 1 .. Len(reqIn.headers) :
                 Supplies(i, k) /\ \A j \in i + 1 .. Len(reqIn.headers) : ~Supplies(j, k)
        x == CHOOSE x \in DOMAIN reqIn.headers[i] : CanonicalMIMEHeaderKey(x) = k
    IN  reqIn.headers[i][x]

\* C25: the request newPostRequest returns is a POST to the URL given; its headers are
\* Content-Type, Accept and the headers the caller supplied, and nothing else; a header
\* the caller supplied has the value of the last map that supplied it, and Content-Type
\* and Accept have application/x-www-form-urlencoded and application/json when the
\* caller supplied neither
C25_PostRequestHeaders ==
    Built("newPostRequest") =>
        /\ req.req.Method = "POST"
        /\ req.req.URL = reqIn.url
        /\ DOMAIN req.req.Header = {"Content-Type", "Accept"} \cup {k \in {"Accept", "Authorization", "Content-Type"} : Supplied(k)}
        /\ \A k \in DOMAIN req.req.Header :
              req.req.Header[k] = IF Supplied(k) THEN LastSupplied(k)
                                  ELSE IF k = "Content-Type" THEN FormContentType
                                  ELSE JSONAccept

\* two maps of the caller give Accept two values, and the request has the second
C25_Witness ==
    /\ Built("newPostRequest")
    /\ Len(reqIn.headers) = 2
    /\ "accept" \in DOMAIN reqIn.headers[1]
    /\ "accept" \in DOMAIN reqIn.headers[2]
    /\ reqIn.headers[1]["accept"] # reqIn.headers[2]["accept"]
    /\ "Authorization" \in DOMAIN reqIn.headers[1]
    /\ req.req.Header["Accept"] = reqIn.headers[2]["accept"]
    /\ req.req.Header["Content-Type"] = FormContentType

\* C26: the body of the request newPostRequest returns, decoded as form data, is the
\* parameter set that was passed: the same keys, each with the same values in the
\* same order
C26_PostBodyRoundTrip ==
    Built("newPostRequest") => ParseQuery(req.req.Body) = reqIn.params

\* two keys, one of them with two values, and characters that have to be escaped
C26_Witness ==
    /\ Built("newPostRequest")
    /\ DOMAIN reqIn.params = {KeyOrder[1], KeyOrder[2]}
    /\ reqIn.params[KeyOrder[2]] = << <<"p", "&", "q", "=", "%", "+">>, <<>> >>
    /\ reqIn.params[KeyOrder[1]] = << <<"x", " ", "y">> >>
    /\ Contains(req.req.Body, "%")
    /\ ParseQuery(req.req.Body) = reqIn.params

\* C27: the request newGetRequest returns is a GET whose URL is the URL given, with
\* Content-Type and Accept set, and the parameters passed are in the request: its
\* body decodes to them
C27_GetRequestKeepsParams ==
    Built("newGetRequest") =>
        /\ req.req.Method = "GET"
        /\ req.req.URL = reqIn.url
        /\ req.req.Header = DefaultHeader
        /\ ParseQuery(req.req.Body) = reqIn.params

C27_Witness ==
    /\ Built("newGetRequest")
    /\ reqIn.url = TestURL
    /\ req.req.URL = TestURL
    /\ DOMAIN reqIn.params = {KeyOrder[1], KeyOrder[2]}
    /\ req.req.Body # <<>>
    /\ ParseQuery(req.req.Body) = reqIn.params

\* C28: makeHTTPRequest returns the body and no error for a 200, and for every other
\* status no body and an error whose message is the status text of the response
C28_NonOKReturnsStatusText ==
    httpResp.transport = "ok" =>
        IF httpResp.status = 200
            THEN httpRet = [body |-> httpResp.body, err |-> NoErr]
            ELSE httpRet = [body |-> NoBody, err |-> StatusText(httpResp.status)]

\* createRelease has returned
ReleaseReturned == relpc = "done"

\* the release was not created: no response, a status outside 200..299, or a body
\* that is no JSON object
ReleaseFailed ==
    \/ relResp.transport # "ok"
    \/ ~Is2xx(relResp.status)
    \/ relResp.body.kind # "object"

\* C21: when the release was not created (transport error, a status that is not 2xx,
\* or a body that cannot be decoded), run returns an error and the process exits
\* with a status that is not 0
C21_FailedReleaseIsFatal ==
    ReleaseReturned /\ ReleaseFailed => runErr # NoRunErr /\ exitCode # 0

\* the form fields of the release request
ReleaseForm == ParseQuery(relReq.Body)

\* C22: the request createRelease sends carries tag_name, the tag; body, the tag
\* message; and the draft and prerelease flags
C22_ReleaseRequestCarriesFields ==
    ~relReq.nil =>
        /\ {<<"tag_name">>, <<"body">>, <<"draft">>, <<"prerelease">>} \subseteq DOMAIN ReleaseForm
        /\ ReleaseForm[<<"tag_name">>] = <<tag>>
        /\ ReleaseForm[<<"body">>] = <<tagMessage>>
        /\ ReleaseForm[<<"draft">>] = <<FormatBool(FALSE)>>
        /\ ReleaseForm[<<"prerelease">>] = <<FormatBool(FALSE)>>

\* C23: the release request has an Authorization header, and its value is the
\* token type, one space, and the access token of the UserAuth the poll returned
C23_AuthorizationHeader ==
    ~relReq.nil =>
        /\ "Authorization" \in DOMAIN relReq.Header
        /\ relReq.Header["Authorization"] = <<ret.auth.TokenType, " ", ret.auth.AccessToken>>

\* a release request sent with the token of a successful poll
C23_Witness ==
    /\ ~relReq.nil
    /\ lastResp.body.access_token = Token
    /\ relReq.Header["Authorization"] = <<"bearer", " ", Token>>

\* C30: whatever openbrowser did, the step of run() that calls it ends in
\* pollForAccessToken's loop with no error, the process still running, and the
\* interval, the timeout and the ticker set from the device authorization alone
C30_BrowserFailureNotFatal ==
    [][pc = "prompt" =>
          /\ pc' = "select"
          /\ browser' \in {"opened", "printed"}
          /\ runErr' = runErr
          /\ exitCode' = Absent
          /\ interval' = authResponse.Interval
          /\ timeout' = DurAdd(now, Seconds(authResponse.ExpiresIn))
          /\ period' = TickPeriod(authResponse.Interval)
          /\ ticker' = DurAdd(now, TickPeriod(authResponse.Interval))
          /\ pollCount' = 0]_vars

\* the browser could not be opened, and the poll went on to return the token
C30_Witness ==
    /\ browser = "printed"
    /\ PollSucceeded
    /\ pollCount > 0
    /\ ret.auth.AccessToken = Token

\* the tag of the release is there: the one found in the clone, or the one created
TagResolved == ~tagObj.nil \/ ~created.nil

\* the device flow has returned an access token
TokenReturned == ret.err = NoErr /\ ~ret.auth.nil /\ ret.auth.AccessToken # ""

\* C24: createRelease is called only when the tag has been resolved and the device
\* flow has returned an access token
C24_ReleaseOnlyAfterTagAndToken ==
    relpc = "done" => TagResolved /\ TokenReturned

\* C29: with no repositoryURL the process goes from PreRun to its exit with status 1,
\* and nothing is cloned, pushed, requested from the device endpoints or sent to the
\* releases endpoint
C29_MissingURLExitsBeforeNetwork ==
    repositoryURL = "" =>
        /\ pc \in {"preRun", "exit"}
        /\ pc = "exit" => exitCode = 1
        /\ cloneState = "none"
        /\ calls = <<>>
        /\ ~pushed
        /\ devResp = NoDeviceResp
        /\ pollCount = 0
        /\ relpc = "idle"
        /\ relReq.nil

C29_Witness ==
    /\ repositoryURL = ""
    /\ pc = "exit"
    /\ exitCode = 1
    /\ cloneState = "none"

\* C33: the deadline is set when polling starts, to the time of the start plus the
\* expires_in of the device authorization, and no step of the polling changes it
C33_DeadlineFixed ==
    [][/\ pc = "prompt" => timeout' = DurAdd(now, Seconds(authResponse.ExpiresIn))
       /\ pc \in {"select", "inflight"} => timeout' = timeout]_vars

\* a slow_down has changed the interval, and the deadline is where it was set
C33_Witness ==
    /\ pc = "select"
    /\ IsSlowDown(lastResp)
    /\ interval # authResponse.Interval
    /\ timeout = Seconds(authResponse.ExpiresIn)

\* the form fields of the last poll request
PollForm == ParseQuery(pollReq.Body)

\* the codes have been requested and received
CodesReceived == devResp # NoDeviceResp

\* C34: every poll request is a POST to the token endpoint with three fields, the
\* client id, the device code of the device authorization of this run and the
\* device-flow grant type; and once the codes have been received they are not
\* requested again
C34_PollRequestParameters ==
    /\ [](pollCount > 0 =>
            /\ CodesReceived
            /\ ~pollReq.nil
            /\ pollReq.Method = "POST"
            /\ pollReq.URL = TokenURL
            /\ DOMAIN PollForm = {<<"client_id">>, <<"device_code">>, <<"grant_type">>}
            /\ PollForm[<<"client_id">>] = << <<ClientID>> >>
            /\ PollForm[<<"device_code">>] = << <<devResp.body.device_code>> >>
            /\ PollForm[<<"grant_type">>] = << <<githubDeviceGrantType>> >>)
    /\ [][CodesReceived => devResp' = devResp /\ authResponse' = authResponse]_vars

\* a second poll, after a pending answer, with the device code of this run
C34_Witness ==
    /\ pollCount = 2
    /\ IsPending(lastResp)
    /\ devResp.body.device_code = "D2"
    /\ PollForm[<<"device_code">>] = << <<"D2">> >>

\* C37: a run sends at most one request to the releases endpoint, and once
\* createRelease has returned, whatever it returned, it is not called again
C37_ReleaseAtMostOnce ==
    /\ relCount <= 1
    /\ ReleaseReturned => relCount = 1
    /\ relCount = 1 => ReleaseReturned

\* the run has ended after one request that failed
C37_Witness ==
    /\ relCount = 1
    /\ ReleaseReturned
    /\ relRet.err # NoErr
    /\ exitCode # Absent

\* the access token and the device codes the provider issues
Secrets == {Token} \cup {DeviceCodeOf(i) : i \in 1 .. 3}

\* what the run has written to files: the clone, and the template and the message
\* of the editor
Written ==
    (IF cloneState = "cloned" THEN {"clone"} ELSE {})
    \cup (IF Called("captureInputFromEditor") THEN {"annotatedTagPrompt", "tag message"} ELSE {})

\* the sequence of pieces has the value among them
Mentions(pieces, value) == \E i \in 1 .. Len(pieces) : pieces[i] = value

\* C32: neither the access token nor a device code is printed or written to a file,
\* and the device code is in no request but the poll requests: the release request
\* has it in no header and not in its body
C32_SecretsNotShown ==
    /\ printed \cap Secrets = {}
    /\ Written \cap Secrets = {}
    /\ ~relReq.nil =>
          \A d \in Secrets \ {Token} :
              /\ ~Mentions(relReq.Body, d)
              /\ \A k \in DOMAIN relReq.Header : ~Mentions(relReq.Header[k], d)

\* a run that showed the user code, polled with the device code, got the token and
\* sent it to the releases endpoint
C32_Witness ==
    /\ relCount = 1
    /\ ret.auth.AccessToken = Token
    /\ authResponse.UserCode \in printed
    /\ authResponse.VerificationURI \in printed
    /\ "bearer" \in printed
    /\ PollForm[<<"device_code">>] = << <<authResponse.DeviceCode>> >>
    /\ Mentions(relReq.Header["Authorization"], Token)

\* the first call of the name in the log, 0 if there is none
FirstCall(c) == IF Called(c) THEN CHOOSE i \in 1 .. Len(calls) : calls[i] = c /\ \A j \in 1 .. i - 1 : calls[j] # c
                ELSE 0

\* C35: pushTags is called only after repo.CreateTag stored a new tag in this run:
\* not when the tag existed, not when the creation failed; and a push that returns
\* NoErrAlreadyUpToDate is no error of the run, which goes on to the build
C35_PushOnlyAfterCreation ==
    /\ Called("pushTags")
          => /\ ~created.nil
             /\ tagObj.nil
             /\ 0 < FirstCall("repo.CreateTag")
             /\ FirstCall("repo.CreateTag") < FirstCall("pushTags")
    /\ ~tagObj.nil => ~Called("pushTags") /\ pushErr = NoPush /\ ~pushed
    /\ CreateTagFailed => ~Called("pushTags") /\ pushErr = NoPush /\ ~pushed
    /\ pushErr = NoErrAlreadyUpToDate
          => /\ runErr[1] # "cannot create tag"
             /\ pc = "makeBuild" \/ Called("makeBuild")

\* a tag was created, its push found the remote up to date, and the build ran
C35_Witness ==
    /\ ~created.nil
    /\ pushErr = NoErrAlreadyUpToDate
    /\ Called("repo.Push")
    /\ Called("makeBuild")
    /\ pc = "requestCodes"

\* the steps of run() that have been started
CloneStarted == cloneState # "none"
TagStarted == Called("getTagFromString")
BuildStarted == Called("makeBuild")
DeviceStarted == devResp # NoDeviceResp
PollStarted == pollCount > 0 \/ pc \in {"select", "inflight", "returned"}
ReleaseStarted == relpc # "idle"
StepsStarted ==
    <<CloneStarted, TagStarted, BuildStarted, DeviceStarted, PollStarted, ReleaseStarted>>

\* the run has ended before the release step: run returned an error, the process
\* exited inside a step, or it panicked
RunEnded == pc \in {"aborted", "panic", "exit"} \/ (pc = "returned" /\ ret.err # NoErr)

\* a step from the clone to the polling has failed
StepFailed == RunEnded /\ CloneStarted

\* every step that is started comes after the success of the one before it
StepsOrdered ==
    /\ TagStarted => cloneState = "cloned"
    /\ BuildStarted => TagStarted /\ TagResolved
    /\ DeviceStarted => BuildStarted /\ runErr[1] # "failed building artifacts"
    /\ PollStarted => DeviceStarted /\ ~authResponse.nil
    /\ ReleaseStarted => PollStarted /\ pc = "returned" /\ ret.err = NoErr

\* the error run returned names the step that failed, and no later step was started
NoLaterStep ==
    /\ runErr[1] \in {ErrTempDir, ErrClone} => ~TagStarted
    /\ runErr[1] = "cannot create tag" \/ runErr[2] \in {ErrMissing, ErrUserHalt, ErrObjectNotFound}
          => ~BuildStarted
    /\ runErr[1] = "failed building artifacts" => ~DeviceStarted /\ pollCount = 0 /\ relCount = 0
    /\ runErr[1] = "failed requesting device and user codes from github" => ~PollStarted
    /\ runErr[1] = ErrPoll => ~ReleaseStarted
    /\ RunEnded => ~ReleaseStarted /\ relCount = 0

\* C36: the steps are started in the order clone, tag resolution, build, device
\* authorization, polling, release; when one of the steps from the clone to the
\* polling fails, run returns an error, and once the run has ended no step is
\* started any more
C36_StepsInOrderFailureStops ==
    /\ [](StepsOrdered /\ NoLaterStep)
    /\ [](StepFailed => pc \in {"aborted", "returned"} /\ runErr # NoRunErr)
    /\ [][RunEnded => StepsStarted' = StepsStarted]_vars

\* the lines of a text and the text of a sequence of lines
TextLines(s) == Split(s, "\n")

RECURSIVE JoinLines(_)
JoinLines(ls) ==
    IF ls = <<>> THEN <<>>
    ELSE IF Len(ls) = 1 THEN ls[1]
    ELSE ls[1] \o <<"\n">> \o JoinLines(Tail(ls))

IsCommentLine(l) == l # <<>> /\ l[1] = "#"

\* the lines that do not begin with "#", in their order
RECURSIVE KeptLines(_)
KeptLines(ls) ==
    IF ls = <<>> THEN <<>>
    ELSE IF IsCommentLine(ls[1]) THEN KeptLines(Tail(ls))
    ELSE <<ls[1]>> \o KeptLines(Tail(ls))

\* C39: stripComments of a text is the text without its lines that begin with "#",
\* every other line as it was; and stripComments of the result is the result
C39_StripRemovesCommentLines ==
    /\ stripped = 1 => stripOut = JoinLines(KeptLines(TextLines(stripIn)))
    /\ stripped = 2 => stripOut = ReplaceAllString(stripIn)

\* the value the documentation gives an option: the flag, else the environment,
\* else the configuration file, else the default
Precedence(o) ==
    IF o.flag # NoValue THEN o.flag
    ELSE IF o.env # NoValue THEN o.env
    ELSE IF o.file # NoValue THEN o.file
    ELSE DefaultValue

\* C31: the value the run uses for an option is that of its flag if the flag is
\* given, else that of the environment variable if it is set, else that of the
\* configuration file; and an option that is set in one of the three is not refused
C31_FlagEnvFilePrecedence ==
    /\ pc = "run" => effective = Precedence(optIn)
    /\ pc = "exit" => Precedence(optIn) = DefaultValue

\* C38: when every poll request returns, pollForAccessToken returns: the responses
\* authorization_pending and slow_down, however many, do not keep it from returning
\* (a response of another kind ends the call at once); and it returns on the timeout
\* or on a response that is neither of the two: a success or an error
C38_PollingTerminates ==
    /\ Polling ~> (pc = "returned" \/ (pc = "panic" /\ ~IsSlowDown(lastResp)))
    /\ [](pc = "returned" =>
             \/ ret.err = ErrTimeout
             \/ /\ ~IsPending(lastResp)
                /\ ~IsSlowDown(lastResp)
                /\ lastResp # NoResp
                /\ ret.err \notin {"authorization_pending", "slow_down"})

====
